---------------------------- MODULE Spec2Model ----------------------------
(***************************************************************************)
(* Model of the segment-timing pipeline of audiograffiti:                   *)
(*   - the segment normalizer (coalesce, tighten, sanitize, de-overlap,     *)
(*     extend tail) of src/app/client-page.jsx and src/app/page.tsx,        *)
(*   - the gap-aware caption lookup segmentIndexAtTime,                     *)
(*   - the script parser and the speaker-segment mapper,                    *)
(*   - the multi-voice path of the TTS route and the client's reading of    *)
(*     the X-Speaker-Timings header,                                        *)
(*   - the client's session: audio source, segments, transcript, speaker    *)
(*     timings and the export's speaker assignment,                         *)
(*   - the caption metrics and their memo, the export's ticking, and the    *)
(*     whole exportMP4 call: support detection, wake lock, recorder,        *)
(*     conversion route, delivery,                                          *)
(*   - the busy flags of generateTTS, transcribe and exportMP4,             *)
(*   - the fixed-chunk segment builder of the three pages,                  *)
(*   - the live preview effect of src/app/page.tsx.                         *)
(*                                                                          *)
(* Time.  The code computes in seconds (JavaScript numbers).  The model     *)
(* counts integer ticks of 1/18000 s, so that 0.2 s = 3600 ticks and every  *)
(* division the code performs on the modelled inputs (by a chunk count of   *)
(* 2, 3, 4 or 5, twice in a row, and by 2 for a midpoint) is exact.         *)
(*                                                                          *)
(* Text.  A string is a sequence of one-character strings; " " is the only  *)
(* whitespace character that occurs.                                        *)
(***************************************************************************)
EXTENDS Integers, Sequences, FiniteSets, TLC

VARIABLES
    nzInput,     \* normalizer: the raw spans handed to normalizeSegments
    nzHint,      \* normalizer: the totalDurGuess argument
    nzOut,       \* normalizer: normalizeSegments(nzInput, nzHint)
    nzAgain,     \* normalizer: normalizeSegments(nzOut, nzHint)
    nzPc,        \* normalizer: "input" | "normalized" | "renormalized"
    mpSegments,  \* mapper: the segments argument
    mpScript,    \* mapper: the scriptText argument
    mpTimings,   \* mapper: the speakerTimings argument
    mpResult,    \* mapper: mapSegmentsToSpeakers(mpSegments, mpScript, mpTimings)
    mpPc,        \* mapper: "input" | "mapped"
    ttsText,          \* TTS: the script in the text box
    characterVoices,  \* TTS: the voice chosen for each character
    ttsRequest,       \* TTS: the segments of the POST to /api/tts
    ttsResponse,      \* TTS: the response of the backend
    speakerTimingsRef,\* TTS: speakerTimingsRef.current
    ttsPc,            \* TTS: "idle" | "sent" | "responded" | "received" | "failed" | "done"
    audioUrl,         \* session: the audio source loaded (0: none, k: the k-th audio)
    ssSegments,       \* session: segments, the stored caption segments
    transcript,       \* session: the stored transcript
    ttsCall,          \* session: what the running generateTTS call holds: the text it
                      \*          read from the text box and the audio it created
    trPc,             \* session: the last transcribe call, "idle" | "ok" | "failed"
    exportSegs,       \* session: the segs the last export rendered
    audioTimings,     \* history: the timings that came with the audio loaded
    segmentsAudio,    \* history: the audio the stored segments were derived from
    lkSegs,           \* lookup: the segs argument of segmentIndexAtTime
    lkT,              \* lookup: the query time t
    lkIndex,          \* lookup: the index returned
    lkPc,             \* lookup: "idle" | "found"
    cpPage,           \* captions: the page component, "client-page.jsx" | "page.tsx"
    selectedFormat,   \* captions: the output format selected
    cpSegments,       \* captions: the segments state
    cpTranscript,     \* captions: the transcript state
    capMetricsMemoRef,\* captions: capMetricsMemoRef.current
    cpExport,         \* captions: what the running export's closure holds
    cpDrawn,          \* history: the arguments and the metrics of the last caption drawn
    hidden,           \* export: document.hidden
    visibilityChanges,\* export: the number of visibility changes so far
    raf,              \* export: TRUE while a requested animation frame is pending
    fallbackInterval, \* export: TRUE while the 250 ms interval is installed
    currentTime,      \* export: a.currentTime of the export's audio
    exPc,             \* export: where exportMP4 / renderWebMBlob stands: "idle" | "lock" |
                      \*         "canplay" | "resume" | "play" | "starting" | "ticking" |
                      \*         "done" (rec.stop() was called) | "encode" | "returned"
    strayFrame,       \* export: TRUE while a requested animation frame is pending whose
                      \*         id the variable raf no longer holds
    audio,            \* export: the export's audio element, "playing" | "halted"
    rec,              \* export: the MediaRecorder, "none" | "recording" | "stopping"
                      \*         (stop() called, stop event pending) | "stopped"
    recStops,         \* history: the number of calls of rec.stop()
    listener,         \* export: TRUE while onVis is registered for visibilitychange
    onProgress,       \* history: the last percentage passed to onProgress (-1: none)
    tickedAfterStop,  \* history: TRUE once tick has run after rec.stop() was called
    exportSupported,  \* export call: the exportSupported state, "null" | "true" | "false"
    profiles,         \* export call: the recording profiles the runtime supports
    isExporting,      \* export call: the isExporting state
    phase,            \* export call: the phase state, "idle" | "render" | "encode" | "save"
    err,              \* export call: the err state, "none" | "capability" | "error"
    exportLock,       \* export call: the wake lock, "none" | "held" | "released"
    ac,               \* export call: the export's AudioContext, "none" | "running" | "closed"
    webmSize,         \* export call: the size of the captured clip in bytes (-1: none yet)
    convertRoute,     \* export call: the handler serving /api/convert-mp4
    download,         \* export call: the size of the file delivered (-1: none)
    isTtsBusy,        \* busy flags: the isTtsBusy state
    isTranscribing,   \* busy flags: the isTranscribing state (client-page.jsx)
    \* --- the fixed-chunk segment builder ---
    bdPage,           \* the page whose builder is called
    bdText,           \* its text
    bdDuration,       \* its durationSec, in ticks
    bdOut,            \* the segments it returned, <<>> before the call
    \* --- the live preview effect (page.tsx) ---
    pvEffect,         \* "none" | "mounted" | "cleaned"
    pvRaf,            \* the frame whose id the effect's raf holds is pending
    pvStrays,         \* pending frames whose id raf no longer holds
    pvInterval,       \* the 250 ms fallback interval is installed
    pvSuspended,      \* loop invocations suspended at await pvAcRef.current.resume()
    pvAc,             \* state of the preview's AudioContext
    pvPlaying,        \* the audio element is playing
    pvDrewAfterCleanup,        \* history: the loop drew after the cleanup
    pvScheduledAfterCleanup    \* history: the loop requested a frame after the cleanup

nzVars == <<nzInput, nzHint, nzOut, nzAgain, nzPc>>
mpVars == <<mpSegments, mpScript, mpTimings, mpResult, mpPc>>

ttsVars == <<ttsText, characterVoices, ttsRequest, ttsResponse, speakerTimingsRef, ttsPc>>

ssVars == <<audioUrl, ssSegments, transcript, ttsCall, trPc, exportSegs,
           audioTimings, segmentsAudio>>

lkVars == <<lkSegs, lkT, lkIndex, lkPc>>

cpVars == <<cpPage, selectedFormat, cpSegments, cpTranscript, capMetricsMemoRef, cpExport, cpDrawn>>

exVars == <<hidden, visibilityChanges, raf, fallbackInterval, currentTime, exPc,
           strayFrame, audio, rec, recStops, listener, onProgress, tickedAfterStop>>

xpVars == <<exportSupported, profiles, isExporting, phase, err, exportLock, ac, webmSize,
           convertRoute, download>>

busyVars == <<isTtsBusy, isTranscribing>>

bdVars == <<bdPage, bdText, bdDuration, bdOut>>

pvVars == <<pvEffect, pvRaf, pvStrays, pvInterval, pvSuspended, pvAc, pvPlaying,
            pvDrewAfterCleanup, pvScheduledAfterCleanup>>

vars == <<nzVars, mpVars, ttsVars, ssVars, lkVars, cpVars, exVars, xpVars, busyVars, bdVars,
pvVars>>

(***************************************************************************)
(* Program constants, in ticks (18000 ticks = 1 s) or words.                *)
(***************************************************************************)
MAX_WORDS_PER_SEGMENT == 18
minDur == 7200            \* 0.4 s
EPS == 18                 \* 1e-3 s
holdGapSec == 900         \* 0.05 s
leadInSec == 540          \* 0.03 s
tailOutSec == 1080        \* 0.06 s
PAUSE_DURATION == 18000   \* 1.0 s
INITIAL_SILENCE == 3600   \* 0.2 s
cumulativeTime0 == 3600   \* 0.2 s: the value the estimation's cursor starts at
initialSilenceSec == 3600 \* 0.2 s: the silence the backend puts first
pauseSec == 18000         \* 1.0 s: the backend's pause at a voice change
minAudioBytes == 100      \* audio shorter than this is rejected
maxSegments == 50         \* segments a request may carry
maxSegmentChars == 4096   \* characters a segment's text may have
maxChars == 50000         \* characters the plan allows a script to have
defaultDur == 180000      \* 10 s: the duration assumed when the probe fails
minBuiltDur == 18000      \* 1 s: the least duration of the segment built for no words
FIXED_WORDS_PER_SEGMENT == 12
FIXED_WORDS_PER_SEGMENT_page == 6    \* the same constant in page.tsx and page.jsx
minSize == 56             \* the least font size the search for a caption size tries
maxSize == 220            \* the greatest font size
minClipBytes == 1024      \* a captured clip smaller than this is an error
minInputBytes == 1024     \* route.ts rejects an input smaller than this
minMp4Bytes == 1024       \* route.ts rejects a transcoded output smaller than this

(***************************************************************************)
(* Bounds of the model.                                                     *)
(***************************************************************************)
MaxSpans == 2             \* raw spans per normalizer input
MaxStart == 3             \* latest start of a raw span, in steps of 0.2 s
MaxLines == 2             \* raw lines of a script
MaxMapSegs == 2           \* segments handed to the mapper
MaxTimings == 2           \* entries of a speaker-timing list
MaxAudios == 2            \* audios a session accepts
MaxLookupSegs == 2        \* segments a lookup searches
MaxCaptionWords == 13     \* words of a caption text
MaxBuildWords == 13       \* words of a text the segment builder is given
MaxPreviewFrames == 2     \* pending frames the preview leaves unreferenced; loops it suspends
MaxVisibilityChanges == 4 \* times the tab is hidden or shown during an export
totalDuration == 10       \* duration of the export's audio, in steps of its clock

Step == minDur \div 2     \* 0.2 s: the grid the raw span times lie on

Max(a, b) == IF a >= b THEN a ELSE b
Min(a, b) == IF a <= b THEN a ELSE b

(***************************************************************************)
(* Strings.                                                                 *)
(***************************************************************************)
IsSpace(c) == c = " "

RECURSIVE SkipLeft(_, _)
\* the first position from i on that holds no whitespace (Len(s) + 1 if none)
SkipLeft(s, i) == IF i > Len(s) \/ ~IsSpace(s[i]) THEN i ELSE SkipLeft(s, i + 1)

RECURSIVE SkipRight(_, _)
\* the last position up to j that holds no whitespace (0 if none)
SkipRight(s, j) == IF j < 1 \/ ~IsSpace(s[j]) THEN j ELSE SkipRight(s, j - 1)

\* String.prototype.trim
trim(s) == SubSeq(s, SkipLeft(s, 1), SkipRight(s, Len(s)))

RECURSIVE WordStarts(_, _, _)
\* the positions of lo..hi where a maximal run of non-space characters of s
\* begins, in order (lo..hi is halved, to keep the evaluation shallow)
WordStarts(s, lo, hi) ==
    IF lo > hi THEN <<>>
    ELSE IF lo = hi
         THEN IF ~IsSpace(s[lo]) /\ (lo = 1 \/ IsSpace(s[lo - 1])) THEN <<lo>> ELSE <<>>
         ELSE LET mid == (lo + hi) \div 2
              IN  WordStarts(s, lo, mid) \o WordStarts(s, mid + 1, hi)

\* s.trim().replace(/\s+/g, ' ').split(' ').filter(Boolean)
splitWords(s) ==
    LET starts == WordStarts(s, 1, Len(s))
    IN  [k \in 1..Len(starts) |->
            SubSeq(s, starts[k],
                   SkipRight(s, IF k < Len(starts) THEN starts[k + 1] - 1 ELSE Len(s)))]

RECURSIVE JoinRange(_, _, _)
\* words lo..hi joined by single spaces
JoinRange(words, lo, hi) ==
    IF lo > hi THEN <<>>
    ELSE IF lo = hi THEN words[lo]
    ELSE LET mid == (lo + hi) \div 2
         IN  JoinRange(words, lo, mid) \o <<" ">> \o JoinRange(words, mid + 1, hi)

\* words.join(' ')
join(words) == JoinRange(words, 1, Len(words))

\* words.slice(from, from + n).join(' ')   (from is 0-based, as in the code)
sliceJoin(words, from, n) ==
    join(SubSeq(words, from + 1, Min(Len(words), from + n)))

(***************************************************************************)
(* Segment normalizer.                                                      *)
(***************************************************************************)
Dur(s) == s.end - s.start

RECURSIVE CoalesceFrom(_, _, _, _)
CoalesceFrom(segments, k, out, minD) ==
    IF k > Len(segments) THEN out
    ELSE LET seg == segments[k]
             n == Len(out)
         IN  IF n > 0 /\ Dur(out[n]) < minD /\ Dur(seg) < minD
             THEN CoalesceFrom(segments, k + 1,
                     [out EXCEPT ![n] =
                         [start |-> out[n].start,
                          end   |-> seg.end,
                          text  |-> trim(out[n].text \o <<" ">> \o seg.text)]],
                     minD)
             ELSE CoalesceFrom(segments, k + 1, Append(out, seg), minD)

coalesceSegments(segments) == CoalesceFrom(segments, 1, <<>>, minDur)

\* Math.ceil(n / d) for n >= 0, d > 0: the number of chunks the loop pushes
CeilDiv(n, d) == (n + d - 1) \div d

\* the sub-segments one over-long segment s is split into
Chunks(s, words, maxWords) ==
    LET n == CeilDiv(Len(words), maxWords)
        per == (s.end - s.start) \div n
    IN  [i \in 1..n |->
            [start |-> s.start + (i - 1) * per,
             end   |-> s.start + i * per,
             text  |-> sliceJoin(words, (i - 1) * maxWords, maxWords)]]

RECURSIVE TightenFrom(_, _, _, _)
TightenFrom(segs, k, out, maxWords) ==
    IF k > Len(segs) THEN out
    ELSE LET s == segs[k]
             words == splitWords(s.text)
         IN  IF Len(words) <= maxWords
             THEN TightenFrom(segs, k + 1, Append(out, s), maxWords)
             ELSE TightenFrom(segs, k + 1, out \o Chunks(s, words, maxWords), maxWords)

\* mutant of tightenSegments: the word limit is off by one
tightenSegments_offByOne(segs) == TightenFrom(segs, 1, <<>>, MAX_WORDS_PER_SEGMENT + 1)

tightenSegments(segs) == TightenFrom(segs, 1, <<>>, MAX_WORDS_PER_SEGMENT)

\* mutant of Sanitize: the text is not trimmed
Sanitize_noTrim(s) == [start |-> Max(0, s.start), end |-> Max(0, s.end), text |-> s.text]

\* .map(s => ({start: Math.max(0, s.start), end: Math.max(0, s.end), text: (s.text || '').trim()}))
Sanitize(s) == [start |-> Max(0, s.start), end |-> Max(0, s.end), text |-> trim(s.text)]

RECURSIVE InsertByStart(_, _)
\* s put into the sorted sequence out, after every element whose start is <= its own
InsertByStart(out, s) ==
    IF out = <<>> THEN <<s>>
    ELSE IF out[Len(out)].start <= s.start THEN Append(out, s)
    ELSE Append(InsertByStart(SubSeq(out, 1, Len(out) - 1), s), out[Len(out)])

RECURSIVE SortFrom(_, _, _)
SortFrom(segs, k, out) ==
    IF k > Len(segs) THEN out ELSE SortFrom(segs, k + 1, InsertByStart(out, segs[k]))

\* .sort((a, b) => a.start - b.start): Array.prototype.sort is stable
sortByStart(segs) == SortFrom(segs, 1, <<>>)

\* mutant of Deoverlap: the loop starts one element late
Deoverlap_lateStart(out) ==
    [i \in 1..Len(out) |->
        IF i > 2 /\ out[i].start < out[i - 1].end
        THEN [out[i] EXCEPT !.start = out[i - 1].end]
        ELSE out[i]]

\* for (i = 1 ..) if (out[i].start < out[i-1].end) out[i].start = out[i-1].end;
\* the loop writes starts and reads ends only, so every step sees the ends of
\* the sorted sequence
Deoverlap(out) ==
    [i \in 1..Len(out) |->
        IF i > 1 /\ out[i].start < out[i - 1].end
        THEN [out[i] EXCEPT !.start = out[i - 1].end]
        ELSE out[i]]

\* totalDurGuess: finite = Number.isFinite(totalDurGuess) (FALSE for undefined)
NoHint == [finite |-> FALSE, val |-> 0]
Hint(d) == [finite |-> TRUE, val |-> d]

\* mutant of ExtendTail: the hint is ignored, the last segment keeps its end
ExtendTail_ignoreHint(out, totalDurGuess) == out

ExtendTail(out, totalDurGuess) ==
    IF out = <<>> THEN out
    ELSE LET last == out[Len(out)]
             total == IF totalDurGuess.finite /\ totalDurGuess.val > 0
                      THEN totalDurGuess.val ELSE last.end
         IN  IF total > 0
             THEN [out EXCEPT ![Len(out)].end = Max(last.end, total)]
             ELSE out

\* tighten(coalesce(segs)), then .map(...).filter(s => s.end > s.start).sort(...)
CleanSorted(segs) ==
    LET tight == tightenSegments(coalesceSegments(segs))
    IN  sortByStart(SelectSeq([i \in 1..Len(tight) |-> Sanitize(tight[i])],
                              LAMBDA s : s.end > s.start))

normalizeSegments(segs, totalDurGuess) ==
    ExtendTail(Deoverlap(CleanSorted(segs)), totalDurGuess)

(***************************************************************************)
(* Gap-aware caption lookup.                                                *)
(***************************************************************************)
RECURSIVE IndexFrom(_, _, _)
\* the for loop of segmentIndexAtTime from (1-based) index i on; -1 is "none",
\* other results are the code's 0-based indices
IndexFrom(segs, t, i) ==
    IF i > Len(segs)
    THEN IF t - segs[Len(segs)].end <= holdGapSec + EPS THEN Len(segs) - 1 ELSE -1
    ELSE LET s == segs[i]
         IN  IF t >= s.start - leadInSec - EPS /\ t <= s.end + tailOutSec + EPS
             THEN i - 1
             ELSE IF t < s.start - EPS
                  THEN IF i > 1
                       THEN IF s.start - segs[i - 1].end <= holdGapSec + EPS
                            THEN i - 2 ELSE -1
                       ELSE -1
                  ELSE IndexFrom(segs, t, i + 1)

\* mutant of segmentIndexAtTime: a caption is held over every gap
segmentIndexAtTime_holdOverGaps(segs, t) ==
    IF segs = <<>> THEN -1
    ELSE LET r == IndexFrom(segs, IF t < 0 THEN 0 ELSE t, 1)
             begun == {i \in 1..Len(segs) : segs[i].start <= t}
         IN  IF r = -1 /\ begun # {} THEN Cardinality(begun) - 1 ELSE r

\* mutant of segmentIndexAtTime: a caption does not linger after its end
segmentIndexAtTime_noTailOut(segs, t) ==
    IF segs = <<>> THEN -1
    ELSE LET r == IndexFrom(segs, IF t < 0 THEN 0 ELSE t, 1)
         IN  IF r # -1 /\ t > segs[r + 1].end + EPS THEN -1 ELSE r

\* mutant of segmentIndexAtTime: the last caption is kept for another
\* hold threshold after its tail-out
segmentIndexAtTime_holdAfterTail(segs, t) ==
    IF segs = <<>> THEN -1
    ELSE LET r == IndexFrom(segs, IF t < 0 THEN 0 ELSE t, 1)
         IN  IF r = -1 /\ t > segs[Len(segs)].end
                /\ t - segs[Len(segs)].end <= tailOutSec + holdGapSec + EPS
             THEN Len(segs) - 1 ELSE r

\* mutant of segmentIndexAtTime: a caption appears only after its start
segmentIndexAtTime_afterStart(segs, t) ==
    IF segs = <<>> THEN -1
    ELSE LET r == IndexFrom(segs, IF t < 0 THEN 0 ELSE t, 1)
         IN  IF r # -1 /\ t <= segs[r + 1].start THEN -1 ELSE r

segmentIndexAtTime(segs, t) ==
    IF segs = <<>> THEN -1 ELSE IndexFrom(segs, IF t < 0 THEN 0 ELSE t, 1)

(***************************************************************************)
(* Script parser.                                                           *)
(***************************************************************************)
IsLetter(c) == c \in {"A", "B", "a", "b"}

\* String.prototype.toUpperCase, one character
UpperChar(c) == IF c = "a" THEN "A" ELSE IF c = "b" THEN "B" ELSE c

toUpperCase(s) == [i \in 1..Len(s) |-> UpperChar(s[i])]

\* UTF-16 code units of the characters that occur in a speaker name
CharCode(c) == IF c = " " THEN 32 ELSE IF c = "-" THEN 45
               ELSE IF c = "A" THEN 65 ELSE IF c = "B" THEN 66 ELSE 127

RECURSIVE StrLessFrom(_, _, _)
\* a < b as Array.prototype.sort compares strings, from position i on
StrLessFrom(a, b, i) ==
    IF i > Len(b) THEN FALSE
    ELSE IF i > Len(a) THEN TRUE
    ELSE IF CharCode(a[i]) # CharCode(b[i]) THEN CharCode(a[i]) < CharCode(b[i])
    ELSE StrLessFrom(a, b, i + 1)

StrLess(a, b) == StrLessFrom(a, b, 1)

RECURSIVE Newlines(_, _, _)
\* the positions of lo..hi that hold a newline, in order
Newlines(s, lo, hi) ==
    IF lo > hi THEN <<>>
    ELSE IF lo = hi THEN IF s[lo] = "\n" THEN <<lo>> ELSE <<>>
    ELSE LET mid == (lo + hi) \div 2
         IN  Newlines(s, lo, mid) \o Newlines(s, mid + 1, hi)

\* scriptText.split('\n')
splitLines(s) ==
    LET nl == Newlines(s, 1, Len(s))
    IN  [k \in 1..Len(nl) + 1 |->
            SubSeq(s, IF k = 1 THEN 1 ELSE nl[k - 1] + 1,
                      IF k > Len(nl) THEN Len(s) ELSE nl[k] - 1)]

\* an optional character c of the pattern at position p: the position after it
Opt(line, p, c) == IF p <= Len(line) /\ line[p] = c THEN p + 1 ELSE p

RECURSIVE NameEnd(_, _)
\* the end of the greedy run [A-Z\s\-]* (case-insensitive) from position p on
NameEnd(line, p) ==
    IF p <= Len(line) /\ (IsLetter(line[p]) \/ IsSpace(line[p]) \/ line[p] = "-")
    THEN NameEnd(line, p + 1) ELSE p

\* trimmed.match(/^\*?\*?\[?([A-Z][A-Z\s\-]*)\]?\*?\*?:\s*(.+)$/i): every
\* character after the name's run is outside the run's class, so the greedy
\* match is the only one
matchLine(line) ==
    LET p3 == Opt(line, Opt(line, Opt(line, 1, "*"), "*"), "[")
    IN  IF ~(p3 <= Len(line) /\ IsLetter(line[p3]))
        THEN [ok |-> FALSE, speaker |-> <<>>, text |-> <<>>]
        ELSE LET p4 == NameEnd(line, p3 + 1)
                 p7 == Opt(line, Opt(line, Opt(line, p4, "]"), "*"), "*")
             IN  IF p7 <= Len(line) /\ line[p7] = ":" /\ p7 < Len(line)
                 THEN [ok |-> TRUE,
                       speaker |-> toUpperCase(trim(SubSeq(line, p3, p4 - 1))),
                       text |-> trim(SubSeq(line, p7 + 1, Len(line)))]
                 ELSE [ok |-> FALSE, speaker |-> <<>>, text |-> <<>>]

RECURSIVE ParseFrom(_, _, _)
\* the loop over rawLines: the {speaker, text} lines pushed
ParseFrom(rawLines, k, lines) ==
    IF k > Len(rawLines) THEN lines
    ELSE LET trimmed == trim(rawLines[k])
             m == matchLine(trimmed)
         IN  IF trimmed # <<>> /\ m.ok /\ m.speaker # <<>> /\ m.text # <<>>
             THEN ParseFrom(rawLines, k + 1,
                            Append(lines, [speaker |-> m.speaker, text |-> m.text]))
             ELSE ParseFrom(rawLines, k + 1, lines)

RECURSIVE InsertName(_, _)
\* name put into the sorted duplicate-free sequence names
InsertName(names, name) ==
    IF names = <<>> THEN <<name>>
    ELSE IF names[Len(names)] = name THEN names
    ELSE IF StrLess(names[Len(names)], name) THEN Append(names, name)
    ELSE Append(InsertName(SubSeq(names, 1, Len(names) - 1), name), names[Len(names)])

RECURSIVE SortedNames(_, _, _)
\* Array.from(characterSet).sort()
SortedNames(lines, k, names) ==
    IF k > Len(lines) THEN names
    ELSE SortedNames(lines, k + 1, InsertName(names, lines[k].speaker))

parseCharacterScript(scriptText) ==
    IF scriptText = <<>> THEN [lines |-> <<>>, characters |-> <<>>]
    ELSE LET lines == ParseFrom(splitLines(scriptText), 1, <<>>)
         IN  [lines |-> lines, characters |-> SortedNames(lines, 1, <<>>)]

(***************************************************************************)
(* Speaker-segment mapper.                                                  *)
(*                                                                          *)
(* A speaker is a string; null, undefined and '' (all falsy) are <<>>.      *)
(* speakerTimings is null or an array: [null, entries].                     *)
(* An estimated timeline carries its times multiplied by totalScriptLength  *)
(* (scale), so that line.text.length / totalScriptLength * totalSpeakingTime *)
(* is kept exactly; an authoritative timeline has scale 1.                  *)
(***************************************************************************)
NoSpeaker == <<>>
NullTimings == [null |-> TRUE, entries |-> <<>>]
Timings(list) == [null |-> FALSE, entries |-> list]

Midpoint(segment) == (segment.start + segment.end) \div 2

RECURSIVE FindFrom(_, _, _, _)
\* timeline.find(t => mid >= t.startTime && mid < t.endTime): its index, 0 if none
FindFrom(timeline, mid, scale, k) ==
    IF k > Len(timeline) THEN 0
    ELSE IF mid * scale >= timeline[k].startTime /\ mid * scale < timeline[k].endTime
         THEN k
         ELSE FindFrom(timeline, mid, scale, k + 1)

\* timing?.speaker || parsed.characters[0] || null
PickSpeaker(timeline, k, characters) ==
    IF k > 0 /\ timeline[k].speaker # <<>> THEN timeline[k].speaker
    ELSE IF characters # <<>> THEN characters[1]
    ELSE NoSpeaker

WithSpeaker(segment, speaker) ==
    [start |-> segment.start, end |-> segment.end, text |-> segment.text,
     speaker |-> speaker]

\* segments.map(segment => ({...segment, speaker}))
MapByTimeline(segments, timeline, scale, characters) ==
    [i \in 1..Len(segments) |->
        WithSpeaker(segments[i],
            PickSpeaker(timeline, FindFrom(timeline, Midpoint(segments[i]), scale, 1),
                        characters))]

\* segments returned as they are: no speaker is set
Unmapped(segments) == [i \in 1..Len(segments) |-> WithSpeaker(segments[i], NoSpeaker)]

RECURSIVE SumTextLength(_, _)
SumTextLength(lines, k) ==
    IF k > Len(lines) THEN 0 ELSE Len(lines[k].text) + SumTextLength(lines, k + 1)

\* parsed.lines.reduce((sum, line) => sum + line.text.length, 0)
totalScriptLength(lines) == SumTextLength(lines, 1)

speakerChanges(lines) ==
    Cardinality({i \in 2..Len(lines) : lines[i].speaker # lines[i - 1].speaker})

totalSpeakingTime(segments, lines) ==
    Max(0, segments[Len(segments)].end - speakerChanges(lines) * PAUSE_DURATION
           - INITIAL_SILENCE)

RECURSIVE TimelineFrom(_, _, _, _, _, _)
\* the loop that builds scriptTimeline; cumulativeTime is scaled
TimelineFrom(lines, k, cumulativeTime, lastSpeaker, speaking, timeline) ==
    IF k > Len(lines) THEN timeline
    ELSE LET line == lines[k]
             scale == totalScriptLength(lines)
             begin == IF lastSpeaker # NoSpeaker /\ lastSpeaker # line.speaker
                      THEN cumulativeTime + PAUSE_DURATION * scale
                      ELSE cumulativeTime
             lineDuration == Len(line.text) * speaking
         IN  TimelineFrom(lines, k + 1, begin + lineDuration, line.speaker, speaking,
                 Append(timeline, [speaker |-> line.speaker,
                                   startTime |-> begin,
                                   endTime |-> begin + lineDuration]))

\* mutant of scriptTimeline: the cursor starts at 0
scriptTimeline_noInitialSilence(segments, lines) ==
    TimelineFrom(lines, 1, 0, NoSpeaker, totalSpeakingTime(segments, lines), <<>>)

scriptTimeline(segments, lines) ==
    TimelineFrom(lines, 1, cumulativeTime0 * totalScriptLength(lines), NoSpeaker,
                 totalSpeakingTime(segments, lines), <<>>)

\* mutant of mapSegmentsToSpeakers: the backend's timings are not used
mapSegmentsToSpeakers_estimateOnly(segments, scriptText, speakerTimings) ==
    IF scriptText = <<>> \/ segments = <<>> THEN Unmapped(segments)
    ELSE LET parsed == parseCharacterScript(scriptText)
         IN  IF parsed.lines = <<>> THEN Unmapped(segments)
             ELSE MapByTimeline(segments, scriptTimeline(segments, parsed.lines),
                                totalScriptLength(parsed.lines), parsed.characters)

mapSegmentsToSpeakers(segments, scriptText, speakerTimings) ==
    IF scriptText = <<>> \/ segments = <<>> THEN Unmapped(segments)
    ELSE LET parsed == parseCharacterScript(scriptText)
         IN  IF parsed.lines = <<>> THEN Unmapped(segments)
             ELSE IF ~speakerTimings.null /\ Len(speakerTimings.entries) > 0
                  THEN MapByTimeline(segments, speakerTimings.entries, 1,
                                     parsed.characters)
                  ELSE MapByTimeline(segments, scriptTimeline(segments, parsed.lines),
                                     totalScriptLength(parsed.lines), parsed.characters)

(***************************************************************************)
(* TTS backend (POST /api/tts) and the client's request.                    *)
(*                                                                          *)
(* Audio is the sequence of the pieces it was concatenated from.  The       *)
(* outcomes of the external steps (ffmpeg, the speech service) are inputs   *)
(* of the handler: ext.silenceOk, ext.pauseOk, ext.audioBytes, ext.concatOk. *)
(***************************************************************************)
validVoices ==
    {"shawn", "chuck", "max", "boomer", "brittany", "kaitlyn", "sage", "randy", "coral"}

\* the keys of ELEVENLABS_VOICE_MAP
ELEVENLABS_VOICE_MAP == validVoices

\* the keys of VOICE_API_MAPPING; every key is mapped to itself
VOICE_API_MAPPING == validVoices

\* String(s || "").replace(/\s+/g, " ").trim()
normalizeSpaces(s) == join(splitWords(s))

\* the segments of the multi-voice request: one per parsed line, in order
BuildRequest(text, voicesOf) ==
    LET parsed == parseCharacterScript(trim(text))
    IN  [i \in 1..Len(parsed.lines) |->
            LET speaker == parsed.lines[i].speaker
                customVoice == IF speaker \in DOMAIN voicesOf
                               THEN voicesOf[speaker] ELSE "shawn"
            IN  [text |-> parsed.lines[i].text,
                 voice |-> IF customVoice \in VOICE_API_MAPPING
                           THEN customVoice ELSE "alloy"]]

\* validateTTSRequest for a body with a segments array: TRUE if errors is empty
validateTTSRequest(segments) ==
    /\ Len(segments) # 0
    /\ Len(segments) <= maxSegments
    /\ \A i \in 1..Len(segments) :
          /\ segments[i].text # <<>>
          /\ normalizeSpaces(segments[i].text) # <<>>
          /\ Len(normalizeSpaces(segments[i].text)) <= maxSegmentChars
          /\ segments[i].voice \in validVoices

RECURSIVE MultiVoiceFrom(_, _, _)
\* the loop over the segments from segment i on; st is the loop's state
MultiVoiceFrom(segments, i, st) ==
    IF i > Len(segments) \/ st.error # "" THEN st
    ELSE LET voice == segments[i].voice
             pause == i > 1 /\ st.lastVoice # "" /\ st.lastVoice # voice
             paused == IF pause /\ st.ext.pauseOk
                       THEN [st EXCEPT !.tempFiles = Append(@, "pause"),
                                       !.cumulativeTime = @ + pauseSec]
                       ELSE st
         IN  IF voice \notin ELEVENLABS_VOICE_MAP
             THEN [paused EXCEPT !.error = "Unknown voice"]
             ELSE IF st.ext.audioBytes < minAudioBytes
                  THEN [paused EXCEPT !.error = "suspiciously small"]
                  ELSE MultiVoiceFrom(segments, i + 1,
                          [paused EXCEPT !.tempFiles = Append(@, voice),
                                         !.lastVoice = voice])

\* the result {audio, timings}, or the error thrown.  speakerTimings is
\* created empty and returned; no statement adds an entry to it.
generateMultiVoiceAudio(segments, ext) ==
    LET st0 == [speakerTimings |-> <<>>,
                cumulativeTime |-> initialSilenceSec,
                tempFiles |-> IF ext.silenceOk THEN <<"silence">> ELSE <<>>,
                lastVoice |-> "",
                error |-> "",
                ext |-> ext]
        st == MultiVoiceFrom(segments, 1, st0)
    IN  IF st.error # "" THEN [error |-> st.error, audio |-> <<>>, timings |-> <<>>]
        ELSE IF ~ext.concatOk
             THEN [error |-> "concatenation failed", audio |-> <<>>, timings |-> <<>>]
             ELSE [error |-> "", audio |-> st.tempFiles, timings |-> st.speakerTimings]

NoHeader == [present |-> FALSE, value |-> <<>>]

\* the response of POST to a request with a segments array.  An array is
\* truthy even when it is empty, so X-Speaker-Timings is set on every
\* multi-voice success; its value is the JSON text of the array.
Post(segments, ext) ==
    IF ~validateTTSRequest(segments)
    THEN [status |-> 400, audio |-> <<>>, timingsHeader |-> NoHeader]
    ELSE LET result == generateMultiVoiceAudio(segments, ext)
         IN  IF result.error = ""
             THEN [status |-> 200, audio |-> result.audio,
                   timingsHeader |-> [present |-> TRUE, value |-> result.timings]]
             ELSE IF result.error = "suspiciously small"
             THEN [status |-> 422, audio |-> <<>>, timingsHeader |-> NoHeader]
             ELSE [status |-> 500, audio |-> <<>>, timingsHeader |-> NoHeader]

(***************************************************************************)
(* Client session: segments built from text, export's segs.                 *)
(***************************************************************************)
\* the segments generateTTS builds when the transcription has none
buildSegmentsFromTextAndDuration(text, durationSec) ==
    LET words == splitWords(text)
        n == CeilDiv(Len(words), FIXED_WORDS_PER_SEGMENT)
        per == durationSec \div n
    IN  IF words = <<>>
        THEN <<[start |-> 0, end |-> Max(minBuiltDur, durationSec), text |-> <<>>]>>
        ELSE [i \in 1..n |->
                [start |-> (i - 1) * per, end |-> i * per,
                 text |-> sliceJoin(words, (i - 1) * FIXED_WORDS_PER_SEGMENT,
                                    FIXED_WORDS_PER_SEGMENT)]]

\* data.segments.map(s => ({start, end, text: (s.text || '').trim()}))
TrimTexts(segs) == [i \in 1..Len(segs) |-> [segs[i] EXCEPT !.text = trim(@)]]

\* detectedCharacters: the first two characters of the script in the text box
detectedCharacters(text) ==
    IF trim(text) = <<>> THEN <<>>
    ELSE LET chars == parseCharacterScript(text).characters
         IN  SubSeq(chars, 1, Min(2, Len(chars)))

\* the segs an export renders: the stored segments, mapped to speakers when
\* characters were detected
ExportSegments(segs, text, timings) ==
    IF detectedCharacters(text) # <<>>
    THEN mapSegmentsToSpeakers(segs, text, timings)
    ELSE Unmapped(segs)

(***************************************************************************)
(* Caption metrics.                                                         *)
(***************************************************************************)
\* FORMATS, WIDTH, HEIGHT, CAP_TOP and MAX_LINES of a page for a format, and
\* the text drawn when there is none
Layout(page, format) ==
    IF page = "client-page.jsx"
    THEN [WIDTH |-> 1280, HEIGHT |-> 960, CAP_TOP |-> 1200, MAX_LINES |-> 5,
          placeholder |-> <<"R", "e", "c", "o", "r", "d", " ", "o", "r", " ", "u", "p",
                            "l", "o", "a", "d", " ", "a", "u", "d", "i", "o">>]
    ELSE [WIDTH |-> 1080, HEIGHT |-> IF format = "1:1" THEN 1080 ELSE 1920,
          CAP_TOP |-> IF format = "1:1" THEN 1080 - 400 ELSE 1200, MAX_LINES |-> 3,
          placeholder |-> <<"R", "e", "c", "o", "r", "d", " ", "o", "r", " ", "u", "p",
                            "l", "o", "a", "d", " ", "a", " ", "s", "h", "o", "r", "t">>]

\* CAP_BOX_H = CAP_BOTTOM - CAP_TOP with CAP_BOTTOM = HEIGHT - 96
CAP_BOX_H(layout) == layout.HEIGHT - 96 - layout.CAP_TOP

\* ctx.measureText(text).width at a font size, in half pixels: the canvas'
\* font is taken to be half an em wide per character
measureText(text, size) == Len(text) * size

\* m.width <= maxWidth with maxWidth = WIDTH * 0.94
FitsWidth(text, size, layout) == measureText(text, size) * 50 <= layout.WIDTH * 94

RECURSIVE WrapFrom(_, _, _, _, _, _)
\* the loop of wrapCaption from word k on
WrapFrom(words, k, cur, lines, size, layout) ==
    IF k > Len(words) THEN IF cur # <<>> THEN Append(lines, cur) ELSE lines
    ELSE LET test == IF cur # <<>> THEN cur \o <<" ">> \o words[k] ELSE words[k]
         IN  IF FitsWidth(test, size, layout) \/ cur = <<>>
             THEN WrapFrom(words, k + 1, test, lines, size, layout)
             ELSE WrapFrom(words, k + 1, words[k], Append(lines, cur), size, layout)

wrapCaption(text, size, layout) == WrapFrom(splitWords(text), 1, <<>>, <<>>, size, layout)

\* Math.round(size * 1.14)
LineHeight(size) == (size * 114 + 50) \div 100

\* the test of the search: the wrapped text has at most MAX_LINES lines and
\* its block is at most CAP_BOX_H high
FitsBox(text, size, layout) ==
    LET lines == wrapCaption(text, size, layout)
    IN  /\ Len(lines) <= layout.MAX_LINES
        /\ (Len(lines) - 1) * LineHeight(size) <= CAP_BOX_H(layout)

RECURSIVE SizeFrom(_, _, _, _, _)
\* the while loop of sizeFor
SizeFrom(text, lo, hi, best, layout) ==
    IF lo > hi THEN best
    ELSE LET mid == (lo + hi) \div 2
         IN  IF FitsBox(text, mid, layout)
             THEN SizeFrom(text, mid + 2, hi, mid, layout)
             ELSE SizeFrom(text, lo, mid - 2, best, layout)

sizeFor(text, layout) == SizeFrom(text, minSize, maxSize, minSize, layout)

\* the texts the metrics are computed for
CaptionTexts(layout, segs, fallbackText) ==
    LET texts == SelectSeq([i \in 1..Len(segs) |-> trim(segs[i].text)],
                           LAMBDA t : t # <<>>)
    IN  IF texts # <<>> THEN texts
        ELSE IF trim(fallbackText) # <<>> THEN <<trim(fallbackText)>>
        ELSE <<layout.placeholder>>

RECURSIVE UniformFrom(_, _, _, _)
UniformFrom(texts, k, uniform, layout) ==
    IF k > Len(texts) THEN uniform
    ELSE UniformFrom(texts, k + 1, Min(uniform, sizeFor(texts[k], layout)), layout)

computeUniformCaptionMetrics(layout, segs, fallbackText) ==
    LET uniform == UniformFrom(CaptionTexts(layout, segs, fallbackText), 1, maxSize, layout)
    IN  [size |-> uniform, lineHeight |-> LineHeight(uniform)]

(***************************************************************************)
(* Inputs of the normalizer.                                                *)
(***************************************************************************)
Word == <<"a">>
RECURSIVE Words(_)
\* n one-letter words separated by single spaces
Words(n) == IF n = 0 THEN <<>> ELSE IF n = 1 THEN Word ELSE Word \o <<" ">> \o Words(n - 1)

LongText == Words(MAX_WORDS_PER_SEGMENT + 1)

Span(a, b, txt) == [start |-> a * Step, end |-> b * Step, text |-> txt]

\* spans starting on the grid, 0.2 s (short) or 0.6 s (long), of one word or
\* of one word more than a segment may hold
RegularSpans ==
    {Span(a, a + d, txt) : a \in 0..MaxStart, d \in {1, 3}, txt \in {Word, LongText}}

\* a negative start, an empty interval, empty text, whitespace-only text
SpecialSpans ==
    {Span(-1, 1, Word), Span(1, 1, Word),
     Span(0, 3, <<>>), Span(1, 2, <<>>),
     Span(0, 3, <<" ">>), Span(1, 2, <<" ">>)}

RawSpans == RegularSpans \cup SpecialSpans

SeqsUpTo(S, n) == UNION {[1..k -> S] : k \in 0..n}

\* no hint, a hint that is not positive, and hints on the grid
Hints == {NoHint} \cup {Hint(k * Step) : k \in {0, 4, MaxStart + 3}}

(***************************************************************************)
(* Normalizer: the specification.                                           *)
(***************************************************************************)
\* the mapper's variables while the normalizer is exercised
MapperIdle ==
    /\ mpSegments = <<>> /\ mpScript = <<>> /\ mpTimings = NullTimings
    /\ mpResult = <<>> /\ mpPc = "idle"

\* the TTS variables while another component is exercised
TtsIdle ==
    /\ ttsText = <<>> /\ characterVoices = <<>> /\ ttsRequest = <<>>
    /\ ttsResponse = [status |-> 0, audio |-> <<>>, timingsHeader |-> NoHeader]
    /\ speakerTimingsRef = NullTimings /\ ttsPc = "off"

LookupIdle == lkSegs = <<>> /\ lkT = 0 /\ lkIndex = -1 /\ lkPc = "idle"

\* capMetricsMemoRef.current = null
NoMetrics == [size |-> 0, lineHeight |-> 0]

NotDrawn == [by |-> "none", layout |-> <<>>, segs |-> <<>>, transcriptText |-> <<>>,
             metrics |-> NoMetrics]

NoExport == [active |-> FALSE, layout |-> <<>>, segs |-> <<>>, transcriptText |-> <<>>]

CaptionIdle ==
    /\ cpPage = "client-page.jsx" /\ selectedFormat = "4:3"
    /\ cpSegments = <<>> /\ cpTranscript = <<>>
    /\ capMetricsMemoRef = NoMetrics /\ cpExport = NoExport /\ cpDrawn = NotDrawn

\* no export was started
RecorderIdle ==
    /\ raf = FALSE /\ fallbackInterval = FALSE /\ strayFrame = FALSE
    /\ currentTime = 0 /\ audio = "playing"
    /\ rec = "none" /\ recStops = 0 /\ listener = FALSE
    /\ onProgress = -1 /\ tickedAfterStop = FALSE

ExportIdle ==
    /\ hidden = FALSE /\ visibilityChanges = 0 /\ exPc = "idle"
    /\ RecorderIdle

\* the recording profiles the client tries, in the order of preference
cands == <<"video/webm;codecs=vp9,opus", "video/webm;codecs=vp8,opus", "video/webm">>

Candidates == {cands[i] : i \in 1..Len(cands)}

\* the page was mounted: support is not detected yet, nothing was exported
PageMounted ==
    /\ exportSupported = "null" /\ profiles = Candidates
    /\ isExporting = FALSE /\ phase = "idle" /\ err = "none"
    /\ exportLock = "none" /\ ac = "none" /\ webmSize = -1
    /\ convertRoute = "route.ts" /\ download = -1

\* no generation and no transcription is running
NotBusy == isTtsBusy = FALSE /\ isTranscribing = FALSE

\* the builder was not called
BuilderIdle == bdPage = "page.tsx" /\ bdText = <<>> /\ bdDuration = 0 /\ bdOut = <<>>

\* the preview effect has not run
PreviewIdle ==
    /\ pvEffect = "none" /\ pvRaf = FALSE /\ pvStrays = 0 /\ pvInterval = FALSE
    /\ pvSuspended = 0 /\ pvAc = "running" /\ pvPlaying = FALSE
    /\ pvDrewAfterCleanup = FALSE /\ pvScheduledAfterCleanup = FALSE

\* the session's variables before anything was done
SessionStart ==
    /\ audioUrl = 0 /\ ssSegments = <<>> /\ transcript = <<>>
    /\ ttsCall = [text |-> <<>>, audio |-> 0] /\ trPc = "idle"
    /\ exportSegs = <<>> /\ audioTimings = NullTimings /\ segmentsAudio = 0

InitNormalize ==
    /\ PreviewIdle
    /\ BuilderIdle
    /\ NotBusy
    /\ PageMounted
    /\ ExportIdle
    /\ CaptionIdle
    /\ LookupIdle
    /\ MapperIdle
    /\ TtsIdle
    /\ SessionStart
    /\ nzInput \in SeqsUpTo(RawSpans, MaxSpans)
    /\ nzHint \in Hints
    /\ nzOut = <<>>
    /\ nzAgain = <<>>
    /\ nzPc = "input"

Normalize ==
    /\ nzPc = "input"
    /\ nzOut' = normalizeSegments(nzInput, nzHint)
    /\ nzPc' = "normalized"
    /\ UNCHANGED <<nzInput, nzHint, nzAgain, mpVars, ttsVars, ssVars, lkVars, cpVars, exVars,
                   xpVars, busyVars, bdVars, pvVars>>

Renormalize ==
    /\ nzPc = "normalized"
    /\ nzAgain' = normalizeSegments(nzOut, nzHint)
    /\ nzPc' = "renormalized"
    /\ UNCHANGED <<nzInput, nzHint, nzOut, mpVars, ttsVars, ssVars, lkVars, cpVars, exVars,
                   xpVars, busyVars, bdVars, pvVars>>

NextNormalize == Normalize \/ Renormalize

SpecNormalize == InitNormalize /\ [][NextNormalize]_vars


(***************************************************************************)
(* Inputs of the mapper.                                                    *)
(***************************************************************************)
NameA == <<"A">>
NameB == <<"B">>

\* "[A]: x"
LineA == <<"[", "A", "]", ":", " ", "x">>
\* "[B]: xxx"
LineB == <<"[", "B", "]", ":", " ", "x", "x", "x">>
\* "a: xx": no brackets, lower case
LineLower == <<"a", ":", " ", "x", "x">>
\* "**B:** x": bold
LineBold == <<"*", "*", "B", ":", "*", "*", " ", "x">>
\* "x": no speaker tag
LinePlain == <<"x">>

RawLines == {LineA, LineB, LineLower, LineBold, LinePlain}

RECURSIVE JoinLines(_, _)
\* the raw lines from line i on, separated by newlines
JoinLines(rawLines, i) ==
    IF i > Len(rawLines) THEN <<>>
    ELSE IF i = Len(rawLines) THEN rawLines[i]
    ELSE rawLines[i] \o <<"\n">> \o JoinLines(rawLines, i + 1)

Scripts == {JoinLines(ls, 1) : ls \in SeqsUpTo(RawLines, MaxLines)}

\* the export calls the mapper only when characters were detected in the script
MapperScripts == {sc \in Scripts : parseCharacterScript(sc).characters # <<>>}

\* n contiguous segments of d steps each, the first starting at step a
SegmentRun(a, d, n) == [i \in 1..n |-> Span(a + (i - 1) * d, a + i * d, Word)]

MapperSegments == {SegmentRun(a, d, n) : a \in {0, 1}, d \in {2, 6}, n \in 1..MaxMapSegs}

RECURSIVE TimingsFrom(_, _, _, _, _)
\* timings as a backend lays lines out: after the leading silence, one interval
\* of dur steps per line, a pause where the speaker changes
TimingsFrom(speakers, dur, k, cursor, last) ==
    IF k > Len(speakers) THEN <<>>
    ELSE LET begin == IF last # NoSpeaker /\ last # speakers[k]
                      THEN cursor + PAUSE_DURATION ELSE cursor
         IN  <<[speaker |-> speakers[k], startTime |-> begin,
                endTime |-> begin + dur * Step]>>
             \o TimingsFrom(speakers, dur, k + 1, begin + dur * Step, speakers[k])

Range(f) == {f[i] : i \in DOMAIN f}

\* null, the empty list, and the lists of up to MaxTimings entries. The list
\* is parsed from a response header and kept while the script is edited, so
\* its speakers are names, whether the current script has them or not.
MapperTimings ==
    {NullTimings} \cup
    {Timings(TimingsFrom(sp, dur, 1, INITIAL_SILENCE, NoSpeaker)) :
        sp \in SeqsUpTo({NameA, NameB}, MaxTimings), dur \in {2, 4}}

\* scripts that differ in line lengths, line count and speaker changes
OtherScripts ==
    {JoinLines(ls, 1) : ls \in {<<LineLower>>, <<LineA, LineB>>,
                                <<LineBold>>, <<LineBold, LineB>>}}

(***************************************************************************)
(* Mapper: the specification.                                               *)
(***************************************************************************)
\* the normalizer's variables while the mapper is exercised
NormalizerIdle ==
    /\ nzInput = <<>> /\ nzHint = NoHint /\ nzOut = <<>> /\ nzAgain = <<>>
    /\ nzPc = "idle"

InitMapper ==
    /\ PreviewIdle
    /\ BuilderIdle
    /\ NotBusy
    /\ PageMounted
    /\ ExportIdle
    /\ CaptionIdle
    /\ LookupIdle
    /\ NormalizerIdle
    /\ TtsIdle
    /\ SessionStart
    /\ mpSegments \in MapperSegments
    /\ mpScript \in MapperScripts
    /\ mpTimings \in MapperTimings
    /\ mpResult = <<>>
    /\ mpPc = "input"

MapSpeakers ==
    /\ mpPc = "input"
    /\ mpResult' = mapSegmentsToSpeakers(mpSegments, mpScript, mpTimings)
    /\ mpPc' = "mapped"
    /\ UNCHANGED <<mpSegments, mpScript, mpTimings, nzVars, ttsVars, ssVars, lkVars, cpVars,
                   exVars, xpVars, busyVars, bdVars, pvVars>>

NextMapper == MapSpeakers

SpecMapper == InitMapper /\ [][NextMapper]_vars

(***************************************************************************)
(* TTS generation: the specification.                                       *)
(***************************************************************************)
\* the voices the characters of a script can be given
VoiceChoices == [{NameA, NameB} -> {"shawn", "chuck"}]

\* the outcomes of the external steps of one request
ExtOutcomes ==
    [silenceOk : BOOLEAN, pauseOk : BOOLEAN, concatOk : BOOLEAN,
     audioBytes : {minAudioBytes - 1, minAudioBytes}]

InitTts ==
    /\ PreviewIdle
    /\ BuilderIdle
    /\ NotBusy
    /\ PageMounted
    /\ ExportIdle
    /\ CaptionIdle
    /\ LookupIdle
    /\ NormalizerIdle
    /\ MapperIdle
    /\ SessionStart
    /\ ttsText \in MapperScripts
    /\ characterVoices \in VoiceChoices
    /\ ttsRequest = <<>>
    /\ ttsResponse = [status |-> 0, audio |-> <<>>, timingsHeader |-> NoHeader]
    /\ speakerTimingsRef = NullTimings
    /\ ttsPc = "idle"

\* the finally block of generateTTS
TtsFinally == isTtsBusy' = FALSE

\* the finally block of transcribe
TranscribeFinally == isTranscribing' = FALSE

\* generateTTS up to the fetch: the multi-voice request is sent.  The button
\* is enabled for a non-empty script within the plan's limit in which
\* characters were detected, while no generation is running.
SendTts ==
    /\ ttsPc \in {"idle", "failed", "done"}
    /\ audioUrl < MaxAudios
    /\ trim(ttsText) # <<>>
    /\ Len(trim(ttsText)) <= maxChars
    /\ detectedCharacters(ttsText) # <<>>
    /\ ttsRequest' = BuildRequest(ttsText, characterVoices)
    /\ ttsCall' = [text |-> ttsText, audio |-> 0]
    /\ ttsPc' = "sent"
    /\ isTtsBusy' = TRUE
    /\ UNCHANGED <<ttsText, characterVoices, ttsResponse, speakerTimingsRef, nzVars, mpVars,
                   audioUrl, ssSegments, transcript, trPc, exportSegs,
                   audioTimings, segmentsAudio, lkVars, cpVars, exVars, xpVars,
                   isTranscribing, bdVars, pvVars>>

\* the backend handles the request
PostTts ==
    /\ ttsPc = "sent"
    /\ \E ext \in ExtOutcomes : ttsResponse' = Post(ttsRequest, ext)
    /\ ttsPc' = "responded"
    /\ UNCHANGED <<ttsText, characterVoices, ttsRequest, speakerTimingsRef, nzVars, mpVars,
                   ssVars, lkVars, cpVars, exVars, xpVars, busyVars, bdVars, pvVars>>

\* generateTTS after the fetch: a response that is not ok is an error; of an ok
\* response the X-Speaker-Timings header is parsed and, if the parsed value is
\* truthy (any array is), stored; then the audio becomes the audio source
ReceiveTts ==
    /\ ttsPc = "responded"
    /\ IF ttsResponse.status # 200
       THEN /\ ttsPc' = "failed"
            /\ TtsFinally
            /\ UNCHANGED <<speakerTimingsRef, audioUrl, audioTimings, ttsCall>>
       ELSE /\ ttsPc' = "received"
            /\ UNCHANGED isTtsBusy
            /\ speakerTimingsRef' = IF ttsResponse.timingsHeader.present
                                    THEN Timings(ttsResponse.timingsHeader.value)
                                    ELSE speakerTimingsRef
            /\ audioUrl' = audioUrl + 1
            /\ ttsCall' = [ttsCall EXCEPT !.audio = audioUrl + 1]
            /\ audioTimings' = IF ttsResponse.timingsHeader.present
                               THEN Timings(ttsResponse.timingsHeader.value)
                               ELSE NullTimings
    /\ UNCHANGED <<ttsText, characterVoices, ttsRequest, ttsResponse, nzVars, mpVars,
                   ssSegments, transcript, trPc, exportSegs, segmentsAudio, lkVars, cpVars,
                   exVars, xpVars, isTranscribing, bdVars, pvVars>>

NextTts == SendTts \/ PostTts \/ ReceiveTts

SpecTts == InitTts /\ [][NextTts]_vars

(***************************************************************************)
(* Client session: the specification.                                       *)
(*                                                                          *)
(* The TTS and transcription services answer over HTTP; what they answer    *)
(* is an input of the client.                                               *)
(***************************************************************************)
SessionScripts == {JoinLines(ls, 1) : ls \in {<<LineA>>, <<LineB>>}}

\* the first unused voice for every character that is no voice's name
AutoVoices(text) ==
    LET chars == detectedCharacters(text)
        voices == <<"shawn", "chuck">>
    IN  [c \in Range(chars) |-> voices[CHOOSE k \in 1..Len(chars) : chars[k] = c]]

\* one entry per line of the script, as a backend that measures the lines
\* would send them
LineTimings(text) ==
    LET lines == parseCharacterScript(trim(text)).lines
    IN  TimingsFrom([i \in 1..Len(lines) |-> lines[i].speaker], 2, 1,
                    INITIAL_SILENCE, NoSpeaker)

\* answers to a generateTTS request: an error, or audio without the timings
\* header, with an empty list or with a list of entries
TtsAnswers(text) ==
    {[status |-> 500, audio |-> <<>>, timingsHeader |-> NoHeader]} \cup
    {[status |-> 200, audio |-> <<"speech">>, timingsHeader |-> h] :
        h \in {NoHeader, [present |-> TRUE, value |-> <<>>],
               [present |-> TRUE, value |-> LineTimings(text)]}}

\* answers of the transcription service: no segments, or spans on the grid
Transcriptions ==
    {[text |-> <<>>, segments |-> <<>>],
     [text |-> Word, segments |-> <<Span(0, 2, Word), Span(3, 9, <<"a", " ">>)>>]}

\* what the duration probe of the synthesized audio gives: 2 s, or it fails
ProbedDurations == {10 * Step, defaultDur}

InitSession ==
    /\ PreviewIdle
    /\ BuilderIdle
    /\ NotBusy
    /\ PageMounted
    /\ ExportIdle
    /\ CaptionIdle
    /\ LookupIdle
    /\ NormalizerIdle
    /\ MapperIdle
    /\ SessionStart
    /\ ttsText \in SessionScripts
    /\ characterVoices = AutoVoices(ttsText)
    /\ ttsRequest = <<>>
    /\ ttsResponse = [status |-> 0, audio |-> <<>>, timingsHeader |-> NoHeader]
    /\ speakerTimingsRef = NullTimings
    /\ ttsPc = "idle"

\* the text box is edited: the characters are detected again and voices
\* assigned to them
EditText ==
    /\ \E sc \in SessionScripts : sc # ttsText /\ ttsText' = sc
    /\ characterVoices' = AutoVoices(ttsText')
    /\ UNCHANGED <<ttsRequest, ttsResponse, speakerTimingsRef, ttsPc, nzVars, mpVars, ssVars,
                   lkVars, cpVars, exVars, xpVars, busyVars, bdVars, pvVars>>

\* the TTS service answers
AnswerTts ==
    /\ ttsPc = "sent"
    /\ ttsResponse' \in TtsAnswers(ttsCall.text)
    /\ ttsPc' = "responded"
    /\ UNCHANGED <<ttsText, characterVoices, ttsRequest, speakerTimingsRef, nzVars, mpVars,
                   ssVars, lkVars, cpVars, exVars, xpVars, busyVars, bdVars, pvVars>>

\* mutant of TtsCatch: the failed call clears what was stored
TtsCatch_clearing ==
    /\ ttsPc' = "failed"
    /\ ssSegments' = <<>>
    /\ transcript' = <<>>
    /\ UNCHANGED segmentsAudio

\* the catch block of generateTTS: the error is shown, nothing else is stored
TtsCatch ==
    /\ ttsPc' = "failed"
    /\ UNCHANGED <<ssSegments, transcript, segmentsAudio>>

\* generateTTS from the duration probe on: the synthesized audio is
\* transcribed; if that fails the call ends with an error, otherwise
\* transcript and segments are stored
CompleteTts ==
    /\ ttsPc = "received"
    /\ \E dur \in ProbedDurations :
          \/ TtsCatch
          \/ \E data \in Transcriptions :
                LET whisperSegs == TrimTexts(data.segments)
                    text == trim(ttsCall.text)
                IN  /\ ssSegments' = normalizeSegments(
                                      IF whisperSegs # <<>> THEN whisperSegs
                                      ELSE buildSegmentsFromTextAndDuration(text, dur),
                                      Hint(dur))
                    /\ transcript' = IF data.text # <<>> THEN data.text ELSE text
                    /\ segmentsAudio' = ttsCall.audio
                    /\ ttsPc' = "done"
    /\ TtsFinally
    /\ UNCHANGED <<ttsText, characterVoices, ttsRequest, ttsResponse, speakerTimingsRef,
                   nzVars, mpVars, audioUrl, ttsCall, trPc, exportSegs,
                   audioTimings, lkVars, cpVars, exVars, xpVars, isTranscribing, bdVars, pvVars>>

\* onUploadAudio(f) with a file, and the recorder's onstop after stopRecord:
\* the file or the recording becomes the audio source
LoadAudio ==
    /\ audioUrl < MaxAudios
    /\ audioUrl' = audioUrl + 1
    /\ audioTimings' = NullTimings
    /\ UNCHANGED <<ttsVars, nzVars, mpVars, ssSegments, transcript, ttsCall, trPc, exportSegs,
                   segmentsAudio, lkVars, cpVars, exVars, xpVars, busyVars, bdVars, pvVars>>

\* transcribe: without audio, or if the service fails, the call ends with an
\* error; otherwise transcript and segments are stored.  isTranscribing is
\* set at the start (client-page.jsx) and cleared in the finally block.
Transcribe ==
    /\ \/ /\ trPc' = "failed"
          /\ UNCHANGED <<ssSegments, transcript, segmentsAudio>>
       \/ /\ audioUrl # 0
          /\ \E data \in Transcriptions :
                LET segs == TrimTexts(data.segments)
                    durGuess == IF segs = <<>> THEN 0 ELSE segs[Len(segs)].end
                IN  /\ transcript' = trim(data.text)
                    /\ ssSegments' = normalizeSegments(segs, Hint(durGuess))
                    /\ segmentsAudio' = audioUrl
                    /\ trPc' = "ok"
    /\ TranscribeFinally
    /\ UNCHANGED <<ttsVars, nzVars, mpVars, audioUrl, ttsCall, exportSegs,
                   audioTimings, lkVars, cpVars, exVars, xpVars, isTtsBusy, bdVars, pvVars>>

\* renderWebMBlob up to rec.start(): the segs of the export.  The export
\* button is enabled while segments are stored.
Export ==
    /\ ssSegments # <<>>
    /\ exportSegs' = ExportSegments(ssSegments, ttsText, speakerTimingsRef)
    /\ UNCHANGED <<ttsVars, nzVars, mpVars, audioUrl, ssSegments, transcript,
                   ttsCall, trPc, audioTimings, segmentsAudio, lkVars, cpVars, exVars, xpVars,
                   busyVars, bdVars, pvVars>>

NextSession ==
    \/ EditText \/ SendTts \/ AnswerTts \/ ReceiveTts \/ CompleteTts
    \/ LoadAudio \/ Transcribe \/ Export

SpecSession == InitSession /\ [][NextSession]_vars

(***************************************************************************)
(* Caption lookup: the specification.                                       *)
(***************************************************************************)
\* sorted, non-overlapping segments: the first starts at first, shape gives
\* every segment's duration and its distance from the segment before
LookupRun(first, shape) ==
    LET RECURSIVE StartOf(_)
        StartOf(i) == IF i = 1 THEN first
                      ELSE StartOf(i - 1) + shape[i - 1].dur + shape[i].gap
    IN  [i \in 1..Len(shape) |->
            [start |-> StartOf(i), end |-> StartOf(i) + shape[i].dur, text |-> Word]]

\* gaps at and around the hold threshold and a 2 s silence; a segment shorter
\* than the tail-out and one of 0.4 s
LookupSegments ==
    {LookupRun(first, shape) :
        first \in {0, Step},
        shape \in {sh \in SeqsUpTo([gap : {0, holdGapSec + EPS, holdGapSec + EPS + 1,
                                           10 * Step},
                                    dur : {Step \div 10, 2 * Step}], MaxLookupSegs) :
                      sh # <<>> /\ sh[1].gap = 0}}

\* the query times: every segment boundary, shifted by the tolerances, one
\* tick less and one tick more
LookupTimes(segs) ==
    LET shifts == {0, leadInSec, leadInSec + EPS, holdGapSec, holdGapSec + EPS,
                   tailOutSec, tailOutSec + EPS, 2 * tailOutSec, 5 * Step}
        offsets == UNION {{d - 1, d, d + 1, 0 - d - 1, 0 - d, 1 - d} : d \in shifts}
    IN  {t \in {b + d : b \in UNION {{segs[i].start, segs[i].end} : i \in 1..Len(segs)},
                        d \in offsets} : t >= 0}

InitLookup ==
    /\ PreviewIdle
    /\ BuilderIdle
    /\ NotBusy
    /\ PageMounted
    /\ ExportIdle
    /\ CaptionIdle
    /\ NormalizerIdle
    /\ MapperIdle
    /\ TtsIdle
    /\ SessionStart
    /\ lkSegs \in LookupSegments
    /\ lkT = 0
    /\ lkIndex = -1
    /\ lkPc = "idle"

\* drawFrame looks the caption of time t up
Lookup ==
    /\ lkPc = "idle"
    /\ \E t \in LookupTimes(lkSegs) :
          /\ lkT' = t
          /\ lkIndex' = segmentIndexAtTime(lkSegs, t)
    /\ lkPc' = "found"
    /\ UNCHANGED <<lkSegs, nzVars, mpVars, ttsVars, ssVars, cpVars, exVars, xpVars, busyVars,
                   bdVars, pvVars>>

NextLookup == Lookup

SpecLookup == InitLookup /\ [][NextLookup]_vars

(***************************************************************************)
(* Captions: the specification.                                             *)
(***************************************************************************)
\* n words of eight letters
CaptionText(n) == join([i \in 1..n |-> [j \in 1..8 |-> "a"]])

\* segments and transcript as a transcription or a generation stores them
CaptionContents ==
    {[segments |-> [i \in 1..Len(ns) |-> Span(2 * i, 2 * i + 1, CaptionText(ns[i]))],
      transcript |-> CaptionText(ns[1])] :
        ns \in {<<1>>, <<4, 1>>, <<MaxCaptionWords - 1>>, <<MaxCaptionWords>>}}

InitCaption ==
    /\ PreviewIdle
    /\ BuilderIdle
    /\ NotBusy
    /\ PageMounted
    /\ ExportIdle
    /\ NormalizerIdle
    /\ MapperIdle
    /\ TtsIdle
    /\ SessionStart
    /\ LookupIdle
    /\ cpPage \in {"client-page.jsx", "page.tsx"}
    /\ selectedFormat = IF cpPage = "page.tsx" THEN "9:16" ELSE "4:3"
    /\ cpSegments = <<>>
    /\ cpTranscript = <<>>
    /\ capMetricsMemoRef = NoMetrics
    /\ cpExport = NoExport
    /\ cpDrawn = NotDrawn

cpRest == <<nzVars, mpVars, ttsVars, ssVars, lkVars, exVars, xpVars, busyVars, bdVars, pvVars>>

\* transcribe or generateTTS stores transcript and segments and clears the
\* memo; the effect on [segments, transcript, selectedFormat] clears it again
SetContent ==
    /\ \E c \in CaptionContents :
          /\ c.segments # cpSegments
          /\ cpSegments' = c.segments
          /\ cpTranscript' = c.transcript
    /\ capMetricsMemoRef' = NoMetrics
    /\ UNCHANGED <<cpPage, selectedFormat, cpExport, cpDrawn, cpRest>>

\* a format button of page.tsx: the effect clears the memo
SelectFormat ==
    /\ cpPage = "page.tsx"
    /\ \E key \in {"9:16", "1:1"} : key # selectedFormat /\ selectedFormat' = key
    /\ capMetricsMemoRef' = NoMetrics
    /\ UNCHANGED <<cpPage, cpSegments, cpTranscript, cpExport, cpDrawn, cpRest>>

\* renderWebMBlob up to the first tick: the closure holds the layout, segs and
\* transcript of the render in which the export was started
StartExport ==
    /\ ~cpExport.active
    /\ cpPage = "client-page.jsx" => cpSegments # <<>>
    /\ cpExport' = [active |-> TRUE,
                    layout |-> Layout(cpPage, selectedFormat),
                    segs |-> IF cpSegments # <<>> THEN cpSegments
                             ELSE <<[start |-> 0, end |-> Step, text |-> cpTranscript]>>,
                    transcriptText |-> cpTranscript]
    /\ UNCHANGED <<cpPage, selectedFormat, cpSegments, cpTranscript, capMetricsMemoRef,
                   cpDrawn, cpRest>>

\* drawFrame at a time with a caption: the memo is filled if it is empty, and
\* the caption is drawn with the memo's metrics
DrawCaption(by, layout, segs, transcriptText) ==
    /\ capMetricsMemoRef' = IF capMetricsMemoRef = NoMetrics
                            THEN computeUniformCaptionMetrics(layout, segs, transcriptText)
                            ELSE capMetricsMemoRef
    /\ cpDrawn' = [by |-> by, layout |-> layout, segs |-> segs,
                   transcriptText |-> transcriptText, metrics |-> capMetricsMemoRef']

\* a tick of the export
ExportTick ==
    /\ cpExport.active
    /\ DrawCaption("export", cpExport.layout, cpExport.segs, cpExport.transcriptText)
    /\ UNCHANGED <<cpPage, selectedFormat, cpSegments, cpTranscript, cpExport, cpRest>>

\* the export's audio reached its end
FinishExport ==
    /\ cpExport.active
    /\ cpExport' = NoExport
    /\ UNCHANGED <<cpPage, selectedFormat, cpSegments, cpTranscript, capMetricsMemoRef,
                   cpDrawn, cpRest>>

\* a frame of the preview loop of page.tsx
PreviewFrame ==
    /\ cpPage = "page.tsx"
    /\ DrawCaption("preview", Layout(cpPage, selectedFormat),
                   IF cpSegments # <<>> THEN cpSegments
                   ELSE <<[start |-> 0, end |-> 5 * Step, text |-> cpTranscript]>>,
                   cpTranscript)
    /\ UNCHANGED <<cpPage, selectedFormat, cpSegments, cpTranscript, cpExport, cpRest>>

NextCaption ==
    \/ SetContent \/ SelectFormat \/ StartExport \/ ExportTick \/ FinishExport
    \/ PreviewFrame

SpecCaption == InitCaption /\ [][NextCaption]_vars

(***************************************************************************)
(* Export ticking: the specification.                                       *)
(*                                                                          *)
(* The browser runs animation-frame callbacks only while the tab is         *)
(* visible; timers and the audio keep running in a hidden tab.              *)
(***************************************************************************)
exRest == <<nzVars, mpVars, ttsVars, ssVars, lkVars, cpVars, xpVars, busyVars, bdVars, pvVars>>

\* renderWebMBlob was called from a click, in a visible tab; the recorder was
\* started and the audio plays
InitExport ==
    /\ PreviewIdle
    /\ BuilderIdle
    /\ NotBusy
    /\ exportSupported = "true" /\ profiles = Candidates
    /\ isExporting = TRUE /\ phase = "render" /\ err = "none"
    /\ exportLock = "held" /\ ac = "running" /\ webmSize = -1
    /\ convertRoute = "route.ts" /\ download = -1
    /\ NormalizerIdle
    /\ MapperIdle
    /\ TtsIdle
    /\ SessionStart
    /\ LookupIdle
    /\ CaptionIdle
    /\ hidden = FALSE
    /\ visibilityChanges = 0
    /\ raf = FALSE
    /\ fallbackInterval = FALSE
    /\ strayFrame = FALSE
    /\ currentTime = 0
    /\ audio = "playing"
    /\ rec = "recording"
    /\ recStops = 0
    /\ listener = FALSE
    /\ onProgress = -1
    /\ tickedAfterStop = FALSE
    /\ exPc = "starting"

\* document.addEventListener('visibilitychange', onVis);
\* raf = requestAnimationFrame(tick)
ScheduleFirstTick ==
    /\ exPc = "starting"
    /\ listener' = TRUE
    /\ raf' = TRUE
    /\ exPc' = "ticking"
    /\ UNCHANGED <<hidden, visibilityChanges, fallbackInterval, currentTime, strayFrame,
                   audio, rec, recStops, onProgress, tickedAfterStop, exRest>>

\* Math.min(99, Math.floor(Math.min(currentTime / totalDuration, 1) * 99))
Percent(t) == Min(99, (Min(t, totalDuration) * 99) \div totalDuration)

\* the body of tick.  pending: the frame whose id raf holds is still pending
\* when tick runs; strays: another requested frame is pending
tick(pending, strays) ==
    /\ onProgress' = Percent(currentTime)
    /\ tickedAfterStop' = (tickedAfterStop \/ recStops > 0)
    /\ IF currentTime >= totalDuration
       THEN /\ fallbackInterval' = FALSE
            /\ raf' = FALSE
            /\ strayFrame' = strays
            /\ rec' = IF rec = "recording" THEN "stopping" ELSE rec
            /\ recStops' = Min(recStops + 1, 2)
            /\ exPc' = IF exPc = "ticking" THEN "done" ELSE exPc
       ELSE /\ raf' = IF ~hidden THEN TRUE ELSE pending
            /\ strayFrame' = IF ~hidden THEN (strays \/ pending) ELSE strays
            /\ UNCHANGED <<fallbackInterval, rec, recStops, exPc>>

\* the browser runs the pending animation frame: the tab is visible, and a
\* frame requested earlier has run before
AnimationFrame ==
    /\ raf
    /\ ~hidden
    /\ ~strayFrame
    /\ tick(FALSE, FALSE)
    /\ UNCHANGED <<hidden, visibilityChanges, currentTime, audio, listener, exRest>>

\* the browser runs a pending animation frame whose id was overwritten
StrayFrame ==
    /\ strayFrame
    /\ ~hidden
    /\ tick(raf, FALSE)
    /\ UNCHANGED <<hidden, visibilityChanges, currentTime, audio, listener, exRest>>

\* the 250 ms interval fires
IntervalTick ==
    /\ fallbackInterval
    /\ tick(raf, strayFrame)
    /\ UNCHANGED <<hidden, visibilityChanges, currentTime, audio, listener, exRest>>

\* onVis
onVis ==
    IF hidden'
    THEN /\ fallbackInterval' = TRUE
         /\ raf' = FALSE
         /\ UNCHANGED strayFrame
    ELSE /\ fallbackInterval' = FALSE
         /\ raf' = TRUE
         /\ strayFrame' = (strayFrame \/ raf)

\* the tab is hidden or shown; onVis runs if the listener is registered
VisibilityChange ==
    /\ visibilityChanges < MaxVisibilityChanges
    /\ hidden' = ~hidden
    /\ visibilityChanges' = visibilityChanges + 1
    /\ IF listener
       THEN onVis
       ELSE UNCHANGED <<fallbackInterval, raf, strayFrame>>
    /\ UNCHANGED <<currentTime, exPc, audio, rec, recStops, listener, onProgress,
                   tickedAfterStop, exRest>>

\* the export's audio plays on
AudioPlays ==
    /\ exPc \in {"starting", "ticking"}
    /\ audio = "playing"
    /\ currentTime < totalDuration
    /\ currentTime' = currentTime + 1
    /\ UNCHANGED <<hidden, visibilityChanges, raf, fallbackInterval, exPc, strayFrame,
                   audio, rec, recStops, listener, onProgress, tickedAfterStop, exRest>>

NextExport ==
    \/ ScheduleFirstTick \/ AnimationFrame \/ StrayFrame \/ IntervalTick
    \/ VisibilityChange \/ AudioPlays

\* the event loop runs every callback that stays due, and the audio plays
SpecExport ==
    /\ InitExport
    /\ [][NextExport]_vars
    /\ WF_vars(ScheduleFirstTick)
    /\ WF_vars(AnimationFrame)
    /\ WF_vars(StrayFrame)
    /\ WF_vars(IntervalTick)
    /\ WF_vars(AudioPlays)

(***************************************************************************)
(* exportMP4 and renderWebMBlob: the specification.                         *)
(*                                                                          *)
(* The runtime has MediaRecorder and canvas.captureStream; which recording  *)
(* profiles it supports is an input.  The answers of the browser (wake      *)
(* lock, canplay, resume(), play(), the recorder's stop event) and of the   *)
(* conversion service are inputs of the steps that receive them.  One       *)
(* export is followed from the click to its return.                         *)
(***************************************************************************)
\* function pickRecorderMime: the first candidate the runtime supports, or
\* undefined ("")
pickRecorderMime(supported) ==
    IF \E i \in 1..Len(cands) : cands[i] \in supported
    THEN cands[CHOOSE i \in 1..Len(cands) :
                 /\ cands[i] \in supported
                 /\ \A j \in 1..(i - 1) : cands[j] \notin supported]
    ELSE ""

\* detectExportSupport / the mount effect's test: some candidate is supported
detectExportSupport(supported) == \E i \in 1..Len(cands) : cands[i] \in supported

\* the runtimes: no WebM profile (a browser that records MP4 only), plain
\* WebM only, all candidates
ExportRuntimes == {{}, {cands[3]}, Candidates}

ConvertRoutes == {"route.ts", "route.js"}

\* the sizes a captured clip can have
ClipSizes == {minClipBytes - 1, minClipBytes}

\* what ffmpeg can leave: a failure, or an output that is empty, small or not
FfmpegOutcomes ==
    [exitOk : BOOLEAN, outSize : {0, minMp4Bytes - 1, minMp4Bytes}]

\* POST /api/convert-mp4: the status and the size of the body it answers with
convertPost(route, inSize, ffmpeg) ==
    IF route = "route.ts"
    THEN IF inSize < minInputBytes THEN [status |-> 400, size |-> 0]
         ELSE IF ~ffmpeg.exitOk THEN [status |-> 500, size |-> 0]
         ELSE IF ffmpeg.outSize < minMp4Bytes THEN [status |-> 500, size |-> 0]
         ELSE [status |-> 200, size |-> ffmpeg.outSize]
    ELSE IF ~ffmpeg.exitOk THEN [status |-> 500, size |-> 0]
         ELSE IF ffmpeg.outSize = 0 THEN [status |-> 500, size |-> 0]
         ELSE [status |-> 200, size |-> ffmpeg.outSize]

\* the sessions an export can be requested in: no audio, audio without
\* segments, audio with segments
InitExportMp4 ==
    /\ PreviewIdle
    /\ BuilderIdle
    /\ NotBusy
    /\ NormalizerIdle
    /\ MapperIdle
    /\ TtsIdle
    /\ LookupIdle
    /\ ExportIdle
    /\ \E loaded \in {<<0, 0>>, <<1, 0>>, <<1, 1>>} :
          /\ audioUrl = loaded[1]
          /\ ssSegments = IF loaded[2] = 1 THEN <<Span(0, 2, Word)>> ELSE <<>>
          /\ segmentsAudio = loaded[2]
    /\ transcript = <<>>
    /\ ttsCall = [text |-> <<>>, audio |-> 0] /\ trPc = "idle"
    /\ exportSegs = <<>> /\ audioTimings = NullTimings
    /\ cpPage \in {"client-page.jsx", "page.tsx"}
    /\ selectedFormat = IF cpPage = "page.tsx" THEN "9:16" ELSE "4:3"
    /\ cpSegments = <<>> /\ cpTranscript = <<>>
    /\ capMetricsMemoRef = NoMetrics /\ cpExport = NoExport /\ cpDrawn = NotDrawn
    /\ exportSupported = "null"
    /\ profiles \in ExportRuntimes
    /\ isExporting = FALSE /\ phase = "idle" /\ err = "none"
    /\ exportLock = "none" /\ ac = "none" /\ webmSize = -1
    /\ convertRoute \in ConvertRoutes
    /\ download = -1

xpRest == <<nzVars, mpVars, ttsVars, ssVars, lkVars, cpVars, busyVars, bdVars, pvVars>>

\* the mount effect: support is detected and stored
DetectSupport ==
    /\ exportSupported = "null"
    /\ exportSupported' = IF detectExportSupport(profiles) THEN "true" ELSE "false"
    /\ UNCHANGED <<profiles, isExporting, phase, err, exportLock, ac, webmSize,
                   convertRoute, download, exVars, xpRest>>

\* mutant of ExportFinally: the busy state is left as it is
ExportFinally_keepsBusy(lock) ==
    /\ exportLock' = IF lock = "held" THEN "released" ELSE lock
    /\ UNCHANGED <<isExporting, phase>>
    /\ exPc' = "returned"

\* the finally block of exportMP4: the wake lock is released, the busy state
\* is cleared
ExportFinally(lock) ==
    /\ exportLock' = IF lock = "held" THEN "released" ELSE lock
    /\ isExporting' = FALSE
    /\ phase' = "idle"
    /\ exPc' = "returned"

\* an error thrown inside exportMP4's try block: catch, then finally
ExportThrows(lock) ==
    /\ err' = "error"
    /\ ExportFinally(lock)

\* the export button is enabled
ExportEnabled ==
    /\ ~isExporting
    /\ exportSupported # "false"
    /\ cpPage = "client-page.jsx" => ssSegments # <<>>

\* the export button is clicked, in a visible tab: exportMP4 up to the
\* request of the wake lock
ClickExport ==
    /\ exPc = "idle"
    /\ ~hidden
    /\ ExportEnabled
    /\ IF exportSupported = "false"
       THEN /\ err' = "capability"
            /\ ExportFinally(exportLock)
       ELSE /\ exPc' = "lock"
            /\ UNCHANGED <<err, exportLock, isExporting, phase>>
    /\ UNCHANGED <<exportSupported, profiles, ac, webmSize, convertRoute, download,
                   hidden, visibilityChanges, raf, fallbackInterval, currentTime,
                   strayFrame, audio, rec, recStops, listener, onProgress,
                   tickedAfterStop, xpRest>>

\* the wake lock is granted or not; the export is shown as running and
\* renderWebMBlob is called: without audio it throws, else it loads the audio
WakeLockAnswer ==
    /\ exPc = "lock"
    /\ \E lock \in {"held", "none"} :
          IF audioUrl = 0
          THEN ExportThrows(lock)
          ELSE /\ exportLock' = lock
               /\ err' = "none"
               /\ isExporting' = TRUE
               /\ phase' = "render"
               /\ exPc' = "canplay"
    /\ UNCHANGED <<exportSupported, profiles, ac, webmSize, convertRoute, download,
                   hidden, visibilityChanges, raf, fallbackInterval, currentTime,
                   strayFrame, audio, rec, recStops, listener, onProgress,
                   tickedAfterStop, xpRest>>

\* the audio can play: without a finite duration renderWebMBlob throws; else
\* the AudioContext and the MediaRecorder are created (with the profile
\* picked, or with the runtime's default if none was), the recorder is
\* started and ac.resume() is awaited.  An audio that fails to load rejects in
\* client-page.jsx; page.tsx has no listener for it.
AudioLoads ==
    /\ exPc = "canplay"
    /\ \E outcome \in {"canplay", "no duration", "error"} :
          /\ outcome = "error" => cpPage = "client-page.jsx"
          /\ IF outcome = "canplay"
             THEN /\ ac' = "running"
                  /\ rec' = "recording"
                  /\ exPc' = "resume"
                  /\ UNCHANGED <<err, exportLock, isExporting, phase>>
             ELSE /\ ExportThrows(exportLock)
                  /\ UNCHANGED <<ac, rec>>
    /\ UNCHANGED <<exportSupported, profiles, webmSize, convertRoute, download,
                   hidden, visibilityChanges, raf, fallbackInterval, currentTime,
                   strayFrame, audio, recStops, listener, onProgress,
                   tickedAfterStop, xpRest>>

\* ac.resume() is settled: resolved, a.play() is awaited (in client-page.jsx
\* after 200 ms); rejected, renderWebMBlob throws
ResumeAnswer ==
    /\ exPc = "resume"
    /\ \/ /\ exPc' = "play"
          /\ UNCHANGED <<err, exportLock, isExporting, phase>>
       \/ ExportThrows(exportLock)
    /\ UNCHANGED <<exportSupported, profiles, ac, webmSize, convertRoute, download,
                   hidden, visibilityChanges, raf, fallbackInterval, currentTime,
                   strayFrame, audio, rec, recStops, listener, onProgress,
                   tickedAfterStop, xpRest>>

\* a.play() is settled: resolved, the audio plays; rejected, renderWebMBlob
\* throws
PlayAnswer ==
    /\ exPc = "play"
    /\ \/ /\ exPc' = "starting"
          /\ UNCHANGED <<err, exportLock, isExporting, phase>>
       \/ ExportThrows(exportLock)
    /\ UNCHANGED <<exportSupported, profiles, ac, webmSize, convertRoute, download,
                   hidden, visibilityChanges, raf, fallbackInterval, currentTime,
                   strayFrame, audio, rec, recStops, listener, onProgress,
                   tickedAfterStop, xpRest>>

\* the export's audio ends early, stalls, is paused or fails
AudioHalts ==
    /\ exPc \in {"starting", "ticking"}
    /\ audio = "playing"
    /\ currentTime < totalDuration
    /\ audio' = "halted"
    /\ UNCHANGED <<hidden, visibilityChanges, raf, fallbackInterval, currentTime, exPc,
                   strayFrame, rec, recStops, listener, onProgress, tickedAfterStop,
                   exRest>>

\* the recorder's stop event: the clip is complete and renderWebMBlob goes
\* on: the listener is removed, 100 is reported, the AudioContext is closed;
\* a clip that is too small is an error, else it is sent to the conversion
RecorderStops ==
    /\ exPc = "done"
    /\ rec = "stopping"
    /\ rec' = "stopped"
    /\ listener' = FALSE
    /\ onProgress' = 100
    /\ ac' = "closed"
    /\ \E size \in ClipSizes :
          /\ webmSize' = size
          /\ IF size < minClipBytes
             THEN ExportThrows(exportLock)
             ELSE /\ phase' = "encode"
                  /\ exPc' = "encode"
                  /\ UNCHANGED <<err, exportLock, isExporting>>
    /\ UNCHANGED <<exportSupported, profiles, convertRoute, download,
                   hidden, visibilityChanges, raf, fallbackInterval, currentTime,
                   strayFrame, audio, recStops, tickedAfterStop, xpRest>>

\* the conversion is answered, or the request fails: a response that is not
\* ok is an error, a response that is ok is saved as a file
ConvertAnswer ==
    /\ exPc = "encode"
    /\ \/ /\ ExportThrows(exportLock)
          /\ UNCHANGED download
       \/ \E ffmpeg \in FfmpegOutcomes :
             LET r == convertPost(convertRoute, webmSize, ffmpeg)
             IN  IF r.status # 200
                 THEN /\ err' = "error"
                      /\ ExportFinally(exportLock)
                      /\ UNCHANGED download
                 ELSE /\ download' = r.size
                      /\ ExportFinally(exportLock)
                      /\ UNCHANGED err
    /\ UNCHANGED <<exportSupported, profiles, ac, webmSize, convertRoute,
                   hidden, visibilityChanges, raf, fallbackInterval, currentTime,
                   strayFrame, audio, rec, recStops, listener, onProgress,
                   tickedAfterStop, xpRest>>

NextExportMp4 ==
    \/ DetectSupport \/ ClickExport \/ WakeLockAnswer \/ AudioLoads
    \/ ResumeAnswer \/ PlayAnswer
    \/ ScheduleFirstTick \/ AnimationFrame \/ StrayFrame \/ IntervalTick
    \/ VisibilityChange \/ AudioPlays \/ AudioHalts
    \/ RecorderStops \/ ConvertAnswer

SpecExportMp4 == InitExportMp4 /\ [][NextExportMp4]_vars

(***************************************************************************)
(* The handlers with a busy state: generateTTS, transcribe, exportMP4.      *)
(*                                                                          *)
(* A session in a runtime without export support (the export button is      *)
(* disabled), or an export in a page whose text box is empty (the generate  *)
(* button is disabled).                                                     *)
(***************************************************************************)
InitBusy ==
    \/ /\ NotBusy
       /\ PreviewIdle
       /\ BuilderIdle
       /\ ExportIdle
       /\ CaptionIdle
       /\ LookupIdle
       /\ NormalizerIdle
       /\ MapperIdle
       /\ SessionStart
       /\ ttsText \in SessionScripts
       /\ characterVoices = AutoVoices(ttsText)
       /\ ttsRequest = <<>>
       /\ ttsResponse = [status |-> 0, audio |-> <<>>, timingsHeader |-> NoHeader]
       /\ speakerTimingsRef = NullTimings
       /\ ttsPc = "idle"
       /\ profiles = {}
       /\ exportSupported = IF detectExportSupport(profiles) THEN "true" ELSE "false"
       /\ isExporting = FALSE /\ phase = "idle" /\ err = "none"
       /\ exportLock = "none" /\ ac = "none" /\ webmSize = -1
       /\ convertRoute = "route.ts" /\ download = -1
    \/ /\ InitExportMp4
       /\ cpPage = "client-page.jsx"

\* transcribe up to the fetch: the transcription is shown as running
TranscribeStarts ==
    /\ ~isTranscribing
    /\ isTranscribing' = TRUE
    /\ trPc' = "running"
    /\ UNCHANGED <<ttsVars, nzVars, mpVars, audioUrl, ssSegments, transcript, ttsCall,
                   exportSegs, audioTimings, segmentsAudio, lkVars, cpVars, exVars,
                   xpVars, isTtsBusy, bdVars, pvVars>>

\* transcribe from the fetch to its return
TranscribeEnds ==
    /\ isTranscribing
    /\ Transcribe

NextBusy ==
    \/ SendTts \/ AnswerTts \/ ReceiveTts \/ CompleteTts
    \/ TranscribeStarts \/ TranscribeEnds
    \/ NextExportMp4

SpecBusy == InitBusy /\ [][NextBusy]_vars

\* the browser settles every promise awaited and delivers every event that is
\* due, the conversion answers, and the audio plays on while it is playing

SpecExportMp4Fair ==
    /\ SpecExportMp4
    /\ WF_vars(ClickExport)
    /\ WF_vars(WakeLockAnswer)
    /\ WF_vars(AudioLoads)
    /\ WF_vars(ResumeAnswer)
    /\ WF_vars(PlayAnswer)
    /\ WF_vars(ScheduleFirstTick)
    /\ WF_vars(AnimationFrame)
    /\ WF_vars(StrayFrame)
    /\ WF_vars(IntervalTick)
    /\ WF_vars(AudioPlays)
    /\ WF_vars(RecorderStops)
    /\ WF_vars(ConvertAnswer)

(***************************************************************************)
(* The fixed-chunk segment builder of the three pages.                      *)
(***************************************************************************)
BuilderPages == {"page.tsx", "page.jsx", "client-page.jsx"}

\* buildSegmentsFromTextAndDuration as the page defines it: the pages differ
\* in FIXED_WORDS_PER_SEGMENT only
buildSegmentsOf(page, text, durationSec) ==
    IF page = "client-page.jsx"
    THEN buildSegmentsFromTextAndDuration(text, durationSec)
    ELSE LET words == splitWords(text)
             n == CeilDiv(Len(words), FIXED_WORDS_PER_SEGMENT_page)
             per == durationSec \div n
         IN  IF words = <<>>
             THEN <<[start |-> 0, end |-> Max(minBuiltDur, durationSec), text |-> <<>>]>>
             ELSE [i \in 1..n |->
                     [start |-> (i - 1) * per, end |-> i * per,
                      text |-> sliceJoin(words, (i - 1) * FIXED_WORDS_PER_SEGMENT_page,
                                         FIXED_WORDS_PER_SEGMENT_page)]]

\* durations of a synthesized clip: 1 s, 10 s, 30 s (every chunk count the
\* texts give divides them, so that durationSec / chunks.length is exact)
BuildDurations == {minBuiltDur, defaultDur, 3 * defaultDur}

InitBuild ==
    /\ PreviewIdle
    /\ NotBusy
    /\ PageMounted
    /\ ExportIdle
    /\ CaptionIdle
    /\ LookupIdle
    /\ NormalizerIdle
    /\ MapperIdle
    /\ TtsIdle
    /\ SessionStart
    /\ bdPage \in BuilderPages
    /\ bdText \in {Words(n) : n \in 1..MaxBuildWords}
    /\ bdDuration \in BuildDurations
    /\ bdOut = <<>>

\* the builder is called
Build ==
    /\ bdOut = <<>>
    /\ bdOut' = buildSegmentsOf(bdPage, bdText, bdDuration)
    /\ UNCHANGED <<bdPage, bdText, bdDuration, nzVars, mpVars, ttsVars, ssVars, lkVars,
                   cpVars, exVars, xpVars, busyVars, pvVars>>

NextBuild == Build

SpecBuild == InitBuild /\ [][NextBuild]_vars

(***************************************************************************)
(* The live preview effect of page.tsx.                                     *)
(*                                                                          *)
(* The effect requests an animation frame for its async loop, or installs   *)
(* the 250 ms interval when the tab is hidden.  The loop awaits the resume  *)
(* of the preview's AudioContext when that is suspended while the audio is  *)
(* playing, draws, and requests the next frame if the tab is visible.  The  *)
(* browser runs animation frames in a visible tab only.  Only the frame     *)
(* whose id the variable raf holds can be cancelled.                        *)
(***************************************************************************)
pvRest == <<nzVars, mpVars, ttsVars, ssVars, lkVars, cpVars, xpVars, busyVars, bdVars,
            raf, fallbackInterval, currentTime, exPc, strayFrame, audio, rec, recStops,
            listener, onProgress, tickedAfterStop>>

\* the effect runs, in a visible or a hidden tab
InitPreview ==
    /\ BuilderIdle
    /\ NotBusy
    /\ PageMounted
    /\ CaptionIdle
    /\ LookupIdle
    /\ NormalizerIdle
    /\ MapperIdle
    /\ TtsIdle
    /\ SessionStart
    /\ hidden \in BOOLEAN /\ visibilityChanges = 0 /\ exPc = "idle"
    /\ RecorderIdle
    /\ pvEffect = "mounted"
    /\ pvRaf = ~hidden
    /\ pvInterval = hidden
    /\ pvStrays = 0 /\ pvSuspended = 0
    /\ pvAc \in {"suspended", "running"}
    /\ pvPlaying \in BOOLEAN
    /\ pvDrewAfterCleanup = FALSE /\ pvScheduledAfterCleanup = FALSE

\* loop from the draw on: the frame is drawn and, in a visible tab, the next
\* frame is requested; pending tells whether the frame raf referred to is
\* still pending, strays counts the other pending frames
loopDraws(pending, strays) ==
    /\ pvDrewAfterCleanup' = (pvDrewAfterCleanup \/ pvEffect = "cleaned")
    /\ IF ~hidden
       THEN /\ strays + (IF pending THEN 1 ELSE 0) <= MaxPreviewFrames
            /\ pvRaf' = TRUE
            /\ pvStrays' = strays + (IF pending THEN 1 ELSE 0)
            /\ pvScheduledAfterCleanup' = (pvScheduledAfterCleanup \/ pvEffect = "cleaned")
       ELSE /\ pvRaf' = pending
            /\ pvStrays' = strays
            /\ UNCHANGED pvScheduledAfterCleanup

\* loop is called: it suspends at the await of resume(), or draws at once
loop(pending, strays) ==
    IF pvAc = "suspended" /\ pvPlaying
    THEN /\ pvSuspended < MaxPreviewFrames
         /\ pvSuspended' = pvSuspended + 1
         /\ pvRaf' = pending
         /\ pvStrays' = strays
         /\ UNCHANGED <<pvDrewAfterCleanup, pvScheduledAfterCleanup>>
    ELSE /\ loopDraws(pending, strays)
         /\ UNCHANGED pvSuspended

\* the frame raf refers to runs
PreviewLoopFrame ==
    /\ pvRaf /\ ~hidden
    /\ loop(FALSE, pvStrays)
    /\ UNCHANGED <<pvEffect, pvInterval, pvAc, pvPlaying, hidden, visibilityChanges, pvRest>>

\* a pending frame raf does not refer to runs
PreviewStrayFrame ==
    /\ pvStrays > 0 /\ ~hidden
    /\ loop(pvRaf, pvStrays - 1)
    /\ UNCHANGED <<pvEffect, pvInterval, pvAc, pvPlaying, hidden, visibilityChanges, pvRest>>

\* the fallback interval fires
PreviewIntervalTick ==
    /\ pvInterval
    /\ loop(pvRaf, pvStrays)
    /\ UNCHANGED <<pvEffect, pvInterval, pvAc, pvPlaying, hidden, visibilityChanges, pvRest>>

\* resume() settles: resolved, the context runs; rejected, the error is
\* swallowed; the suspended loop goes on
PreviewResumeSettles ==
    /\ pvSuspended > 0
    /\ pvSuspended' = pvSuspended - 1
    /\ pvAc' \in {"running", pvAc}
    /\ loopDraws(pvRaf, pvStrays)
    /\ UNCHANGED <<pvEffect, pvInterval, pvPlaying, hidden, visibilityChanges, pvRest>>

\* onVisibilityChange of the preview, while its listener is registered
PreviewVisibilityChange ==
    /\ visibilityChanges < MaxVisibilityChanges
    /\ hidden' = ~hidden
    /\ visibilityChanges' = visibilityChanges + 1
    /\ IF pvEffect # "mounted"
       THEN UNCHANGED <<pvRaf, pvStrays, pvInterval>>
       ELSE IF hidden'
       THEN /\ pvRaf' = FALSE
            /\ pvInterval' = TRUE
            /\ UNCHANGED pvStrays
       ELSE /\ pvStrays + (IF pvRaf THEN 1 ELSE 0) <= MaxPreviewFrames
            /\ pvInterval' = FALSE
            /\ pvRaf' = TRUE
            /\ pvStrays' = pvStrays + (IF pvRaf THEN 1 ELSE 0)
    /\ UNCHANGED <<pvEffect, pvSuspended, pvAc, pvPlaying, pvDrewAfterCleanup,
                   pvScheduledAfterCleanup, pvRest>>

\* the user starts or pauses the audio
PreviewAudioToggles ==
    /\ pvPlaying' = ~pvPlaying
    /\ UNCHANGED <<pvEffect, pvRaf, pvStrays, pvInterval, pvSuspended, pvAc,
                   pvDrewAfterCleanup, pvScheduledAfterCleanup, hidden, visibilityChanges,
                   pvRest>>

\* the effect's cleanup
PreviewCleanup ==
    /\ pvEffect = "mounted"
    /\ pvEffect' = "cleaned"
    /\ pvRaf' = FALSE
    /\ pvInterval' = FALSE
    /\ UNCHANGED <<pvStrays, pvSuspended, pvAc, pvPlaying, pvDrewAfterCleanup,
                   pvScheduledAfterCleanup, hidden, visibilityChanges, pvRest>>

NextPreview ==
    \/ PreviewLoopFrame \/ PreviewStrayFrame \/ PreviewIntervalTick \/ PreviewResumeSettles
    \/ PreviewVisibilityChange \/ PreviewAudioToggles \/ PreviewCleanup

SpecPreview == InitPreview /\ [][NextPreview]_vars

(***************************************************************************)
(* Claims about the normalizer (checked under SpecNormalize).               *)
(***************************************************************************)
Normalized == nzPc \in {"normalized", "renormalized"}

WordCount(txt) == Len(splitWords(txt))

\* C1: normalizing the normalizer's output again, with the same hint, returns
\* that output unchanged, element for element.
C1_Idempotent == nzPc = "renormalized" => nzAgain = nzOut

\* the times a lookup is asked for: the grid of the raw span times
QueryTimes == {k * Step : k \in 0..(MaxStart + 4)}

\* C2: when the input holds consecutive spans A, B with B.start - A.end >= 0.4 s,
\* the lookup on the output finds no segment at any time inside the gap that is
\* past A's tail-out and before B's lead-in.
C2_GapPreserved ==
    Normalized =>
        \A k \in 1..(Len(nzInput) - 1) :
            LET A == nzInput[k]
                B == nzInput[k + 1]
            IN  B.start - A.end >= minDur =>
                    \A t \in QueryTimes :
                        (t > A.end + tailOutSec + EPS /\ t < B.start - leadInSec - EPS)
                            => segmentIndexAtTime(nzOut, t) = -1

\* C3: the output has strictly increasing starts and every segment ends after
\* it starts.
C3_OrderedNonEmpty ==
    Normalized =>
        /\ \A i \in 1..Len(nzOut) : nzOut[i].end > nzOut[i].start
        /\ \A i \in 1..(Len(nzOut) - 1) : nzOut[i].start < nzOut[i + 1].start

\* C4: in the output no segment ends after the next one starts.
C4_NonOverlap ==
    Normalized => \A i \in 1..(Len(nzOut) - 1) : nzOut[i].end <= nzOut[i + 1].start

\* C4's case: the sorted spans overlapped and the de-overlap step moved a start
C4_Witness ==
    /\ nzPc = "normalized"
    /\ Len(nzOut) >= 2
    /\ Deoverlap(CleanSorted(nzInput)) # CleanSorted(nzInput)

C6_WordCeiling ==
    Normalized => \A i \in 1..Len(nzOut) : WordCount(nzOut[i].text) <= MAX_WORDS_PER_SEGMENT

\* C6's case: several short spans were coalesced into one of more than 18 words
C6_Witness ==
    /\ nzPc = "normalized"
    /\ nzOut # <<>>
    /\ LET merged == coalesceSegments(nzInput)
       IN  /\ Len(merged) < Len(nzInput)
           /\ \E k \in 1..Len(merged) : WordCount(merged[k].text) > MAX_WORDS_PER_SEGMENT

\* C7 as stated: with a finite hint D greater than the last raw span's end and a
\* non-empty output, the last output segment ends at D.
C7_TailEqualsHint ==
    (Normalized /\ nzOut # <<>> /\ nzHint.finite /\ nzHint.val > nzInput[Len(nzInput)].end)
        => nzOut[Len(nzOut)].end = nzHint.val

\* C7 as amended: the same, for a hint D that is also at least as large as the
\* end of every raw span.
C7_TailEqualsCoveringHint ==
    (/\ Normalized /\ nzOut # <<>> /\ nzHint.finite
     /\ nzHint.val > nzInput[Len(nzInput)].end
     /\ \A k \in 1..Len(nzInput) : nzHint.val >= nzInput[k].end)
        => nzOut[Len(nzOut)].end = nzHint.val

\* C7's case: such a hint was given and the last segment was extended to it
C7_Witness ==
    /\ nzPc = "normalized" /\ nzOut # <<>> /\ nzHint.finite
    /\ nzHint.val > nzInput[Len(nzInput)].end
    /\ \A k \in 1..Len(nzInput) : nzHint.val >= nzInput[k].end
    /\ Deoverlap(CleanSorted(nzInput))[Len(nzOut)].end < nzHint.val
    /\ Len(nzOut) >= 2


(***************************************************************************)
(* Claims about the speaker-segment mapper (SpecMapper).                    *)
(***************************************************************************)
Mapped == mpPc = "mapped"

Characters == parseCharacterScript(mpScript).characters

Authoritative == ~mpTimings.null /\ Len(mpTimings.entries) > 0

\* the entries of the timing list whose [startTime, endTime) contains the
\* midpoint of segment i
Containing(i) ==
    {k \in 1..Len(mpTimings.entries) :
        /\ Midpoint(mpSegments[i]) >= mpTimings.entries[k].startTime
        /\ Midpoint(mpSegments[i]) < mpTimings.entries[k].endTime}

C10_AuthoritativeTimings ==
    (Mapped /\ Authoritative) =>
        /\ \A i \in 1..Len(mpResult) :
              Containing(i) # {} =>
                  mpResult[i].speaker =
                      mpTimings.entries[CHOOSE k \in Containing(i) :
                                           \A j \in Containing(i) : k <= j].speaker
        /\ \A sc \in OtherScripts :
              parseCharacterScript(sc).characters[1] = Characters[1] =>
                  mapSegmentsToSpeakers(mpSegments, sc, mpTimings) = mpResult

\* C10 witness: an authoritative list is used, an entry contains a segment's
\* midpoint, and the estimation would have assigned the speakers differently.
C10_Witness ==
    /\ Mapped /\ Authoritative
    /\ \E i \in 1..Len(mpResult) : Containing(i) # {}
    /\ mapSegmentsToSpeakers_estimateOnly(mpSegments, mpScript, mpTimings) # mpResult

\* the mapper ran on the estimation path
Estimated == Mapped /\ ~Authoritative /\ parseCharacterScript(mpScript).lines # <<>>

\* C12: on the estimation path the interval of script line k starts at 0.2 s
\* plus the estimated durations of the lines before k plus 1.0 s for every
\* speaker change among lines 1..k, and the segments get their speakers from
\* these intervals.  Times are scaled by the script's length; the estimated
\* duration of a line is its share of the speaking time.
C12_EstimatedStart ==
    Estimated =>
        LET lines == parseCharacterScript(mpScript).lines
            scale == totalScriptLength(lines)
            speaking == totalSpeakingTime(mpSegments, lines)
            duration(j) == Len(lines[j].text) * speaking
            before(k) == totalScriptLength(SubSeq(lines, 1, k - 1)) * speaking
            changes(k) == Cardinality({i \in 2..k : lines[i].speaker # lines[i - 1].speaker})
            begin(k) == INITIAL_SILENCE * scale + before(k)
                        + PAUSE_DURATION * scale * changes(k)
            intervals == [k \in 1..Len(lines) |->
                             [speaker |-> lines[k].speaker, startTime |-> begin(k),
                              endTime |-> begin(k) + duration(k)]]
            timeline == scriptTimeline(mpSegments, lines)
        IN  /\ Len(timeline) = Len(lines)
            /\ \A k \in 1..Len(lines) : timeline[k].startTime = begin(k)
            /\ Len(lines) = 2 /\ lines[1].speaker # lines[2].speaker =>
                  timeline[2].startTime =
                      INITIAL_SILENCE * scale
                      + (timeline[1].endTime - timeline[1].startTime)
                      + PAUSE_DURATION * scale
            /\ mpResult = MapByTimeline(mpSegments, intervals, scale, Characters)

\* C12 witness: two lines with different speakers on the estimation path, with
\* speaking time left, and a segment in the second line's interval
C12_Witness ==
    /\ Estimated
    /\ LET lines == parseCharacterScript(mpScript).lines
       IN  /\ Len(lines) = 2
           /\ lines[1].speaker # lines[2].speaker
           /\ totalSpeakingTime(mpSegments, lines) > 0
           /\ \E i \in 1..Len(mpResult) : mpResult[i].speaker = lines[2].speaker

(***************************************************************************)
(* Claims about TTS generation (SpecTts).                                   *)
(***************************************************************************)
\* C9: after a successful multi-speaker generation of n spoken lines the
\* client holds n timing entries, one per line in order, the first of them
\* starting after the leading silence: a non-empty authoritative list.
C9_TimingPerLine ==
    ttsPc = "received" =>
        /\ ~speakerTimingsRef.null
        /\ Len(speakerTimingsRef.entries) = Len(ttsRequest)
        /\ speakerTimingsRef.entries # <<>>
        /\ speakerTimingsRef.entries[1].startTime = initialSilenceSec

C18_SegmentsOfLoadedAudio ==
    (ttsPc \in {"idle", "failed", "done"} /\ ssSegments # <<>>)
        => segmentsAudio = audioUrl

\* C19: a step of generateTTS that does not complete the call, and a failing
\* transcribe, leave segments and transcript as they are; so when a call
\* fails, nothing of it was stored.
C19_FailureStoresNothing ==
    [][(\/ ttsPc' # ttsPc /\ ttsPc' # "done"
        \/ trPc' = "failed" /\ trPc # "failed")
           => UNCHANGED <<ssSegments, transcript>>]_vars

\* C19 witness: a generation failed at the transcription of its audio while
\* segments of an earlier call are stored
C19_Witness ==
    /\ ttsPc = "failed"
    /\ ttsCall.audio # 0
    /\ ssSegments # <<>>
    /\ segmentsAudio # ttsCall.audio

(***************************************************************************)
(* Claims about the caption lookup (SpecLookup).                            *)
(***************************************************************************)
Found == lkPc = "found"

\* C13 as stated: between consecutive segments A and B that are more than the
\* hold tolerance apart, the lookup finds no segment at any time later than
\* A.end + tailOut and earlier than B.start - leadIn.
C13_BlankInGap ==
    Found =>
        \A i \in 1..(Len(lkSegs) - 1) :
            LET A == lkSegs[i]
                B == lkSegs[i + 1]
            IN  (/\ B.start - A.end > holdGapSec
                 /\ lkT > A.end + tailOutSec
                 /\ lkT < B.start - leadInSec) => lkIndex = -1

\* C13 amended: the same for every time later than A.end + tailOut + EPS and
\* earlier than B.start - leadIn - EPS; within EPS (1 ms) of a window's edge
\* the segment is still found.
C13_BlankInGapBeyondEps ==
    Found =>
        \A i \in 1..(Len(lkSegs) - 1) :
            LET A == lkSegs[i]
                B == lkSegs[i + 1]
            IN  (/\ B.start - A.end > holdGapSec
                 /\ lkT > A.end + tailOutSec + EPS
                 /\ lkT < B.start - leadInSec - EPS) => lkIndex = -1

\* C13 witness: a query one second into a two-second silence
C13_Witness ==
    /\ Found
    /\ Len(lkSegs) = 2
    /\ lkSegs[2].start - lkSegs[1].end = 10 * Step
    /\ lkT = lkSegs[1].end + 5 * Step
    /\ lkIndex = -1

\* no earlier segment's window reaches the query time
Unshadowed(i) == i = 1 \/ lkT > lkSegs[i - 1].end + tailOutSec + EPS

\* C14 as stated: for every segment s and every epsilon in (0, tailOut], the
\* lookup at s.end + tailOut - epsilon returns the index of s and the lookup
\* at s.end + tailOut + epsilon does not.
C14_TailOutBoundary ==
    Found =>
        \A i \in 1..Len(lkSegs) :
            LET s == lkSegs[i]
            IN  /\ (lkT >= s.end /\ lkT < s.end + tailOutSec) => lkIndex = i - 1
                /\ (lkT > s.end + tailOutSec /\ lkT <= s.end + 2 * tailOutSec)
                      => lkIndex # i - 1

\* C14 amended: the lookup at s.end + tailOut - epsilon returns the index of s
\* unless the window of the segment before s reaches that time, and the lookup
\* at s.end + tailOut + epsilon does not return it if epsilon is more than
\* EPS (1 ms).
C14_TailOutBoundaryBeyondEps ==
    Found =>
        \A i \in 1..Len(lkSegs) :
            LET s == lkSegs[i]
            IN  /\ (lkT >= s.end /\ lkT < s.end + tailOutSec /\ Unshadowed(i))
                      => lkIndex = i - 1
                /\ (lkT > s.end + tailOutSec + EPS /\ lkT <= s.end + 2 * tailOutSec)
                      => lkIndex # i - 1

\* C14 witness: one tick before the tail-out of the second segment ends
C14_Witness ==
    /\ Found
    /\ Len(lkSegs) = 2
    /\ lkT = lkSegs[2].end + tailOutSec - 1
    /\ lkIndex = 1

\* C27 as stated: for sorted non-overlapping segments, at a time t with
\* segs[j].start <= t < segs[j].end the lookup returns j, also when segs[j]
\* starts exactly where segs[j-1] ends.
C27_NominalWindow ==
    Found =>
        \A j \in 1..Len(lkSegs) :
            (lkSegs[j].start <= lkT /\ lkT < lkSegs[j].end) => lkIndex = j - 1

\* C27 amended: at such a time the lookup returns j unless the window of the
\* segment before segs[j] still reaches t (t <= segs[j-1].end + tailOut + EPS);
\* then it returns an earlier index, the first whose window holds t.
C27_NominalWindowUnshadowed ==
    Found =>
        \A j \in 1..Len(lkSegs) :
            (lkSegs[j].start <= lkT /\ lkT < lkSegs[j].end) =>
                IF Unshadowed(j) THEN lkIndex = j - 1
                ELSE /\ lkIndex >= 0 /\ lkIndex < j - 1
                     /\ lkT <= lkSegs[lkIndex + 1].end + tailOutSec + EPS

\* C27 witness: the second segment starts where the first ends; one tick
\* after the first segment's window the second is found
C27_Witness ==
    /\ Found
    /\ Len(lkSegs) = 2
    /\ lkSegs[2].start = lkSegs[1].end
    /\ lkT = lkSegs[1].end + tailOutSec + EPS + 1
    /\ lkT < lkSegs[2].end
    /\ lkIndex = 1

\* at the start of a segment that abuts the one before, the one before is
\* found
C27_Shadowed ==
    /\ Found
    /\ Len(lkSegs) = 2
    /\ lkSegs[2].start = lkSegs[1].end
    /\ lkT = lkSegs[2].start
    /\ lkIndex = 0

\* C15 as stated: at a time later than the last segment's end the lookup
\* returns the last index if the time is less than the hold threshold past
\* that end, and -1 otherwise.
C15_HoldPastEnd ==
    (Found /\ lkT > lkSegs[Len(lkSegs)].end) =>
        IF lkT - lkSegs[Len(lkSegs)].end < holdGapSec
        THEN lkIndex = Len(lkSegs) - 1
        ELSE lkIndex = -1

\* C15 amended: at a time later than the last segment's end the lookup returns
\* -1 if the time is more than tailOut + EPS past that end; up to there it
\* returns the last index, unless the window of the segment before reaches
\* that time.
C15_TailPastEnd ==
    (Found /\ lkT > lkSegs[Len(lkSegs)].end) =>
        IF lkT - lkSegs[Len(lkSegs)].end <= tailOutSec + EPS
        THEN Unshadowed(Len(lkSegs)) => lkIndex = Len(lkSegs) - 1
        ELSE lkIndex = -1

\* C15 witness: a query between the hold threshold and the tail-out past the
\* last segment's end
C15_Witness ==
    /\ Found
    /\ lkT = lkSegs[Len(lkSegs)].end + holdGapSec + EPS + 1
    /\ lkIndex = Len(lkSegs) - 1

(***************************************************************************)
(* Claims about the captions (SpecCaption).                                 *)
(***************************************************************************)
\* the last caption was drawn with the metrics computed for its arguments
DrawnFresh ==
    /\ cpDrawn.by # "none"
    /\ cpDrawn.metrics = computeUniformCaptionMetrics(cpDrawn.layout, cpDrawn.segs,
                                                      cpDrawn.transcriptText)

\* C16: with the metrics computed for a segment set, every segment's text
\* wrapped at that size has at most MAX_LINES lines and a block that is at
\* most the caption box high, in every format.
C16_LayoutFit ==
    DrawnFresh =>
        \A i \in 1..Len(cpDrawn.segs) :
            LET lines == wrapCaption(cpDrawn.segs[i].text, cpDrawn.metrics.size,
                                     cpDrawn.layout)
            IN  /\ Len(lines) <= cpDrawn.layout.MAX_LINES
                /\ (Len(lines) - 1) * cpDrawn.metrics.lineHeight
                      <= CAP_BOX_H(cpDrawn.layout)

\* C17: whenever a caption is drawn with the memoized metrics, in the preview
\* or in an export, they are the metrics computed for the segment set,
\* transcript and format of that frame.
C17_MemoMatchesFrame == cpDrawn.by # "none" => DrawnFresh

(***************************************************************************)
(* Claims about the export's ticking (SpecExport).                          *)
(***************************************************************************)
\* C20: an export completes, whenever the tab is hidden: its ticks go on and
\* the tick that finds the audio at its end stops the recorder.
C20_ExportCompletes == <>(exPc = "done")

(***************************************************************************)
(* Claims about exportMP4 and renderWebMBlob (SpecExportMp4).               *)
(***************************************************************************)
\* C21: during one export the percentages passed to onProgress never
\* decrease, and 100 is passed only once the recorder's stop event has
\* finalized the clip (every value before it is at most 99).
C21_ProgressMonotone ==
    [][/\ onProgress' >= onProgress
       /\ onProgress' = 100 => rec' = "stopped"]_vars

\* an export that created its AudioContext and its MediaRecorder has returned
ReturnedAfterRecording == exPc = "returned" /\ ac # "none" /\ rec # "none"

\* C22: when an exportMP4 call that created an AudioContext and a
\* MediaRecorder has returned, the AudioContext is closed, the recorder is
\* stopped, the visibilitychange listener is removed and the wake lock is
\* released, whether renderWebMBlob returned or threw.
C22_ResourcesReleased ==
    ReturnedAfterRecording =>
        /\ ac = "closed"
        /\ rec = "stopped"
        /\ ~listener
        /\ exportLock # "held"

\* C28: within one export rec.stop() is called at most once, and tick does
\* not run again after it, under every interleaving of animation frames,
\* interval callbacks and visibility changes.
C28_StopOnce == recStops <= 1 /\ ~tickedAfterStop

C25_NoDegenerateFile ==
    /\ download # -1 => (webmSize >= minClipBytes /\ download >= minMp4Bytes)
    /\ (exPc = "returned" /\ webmSize # -1 /\ webmSize < minClipBytes)
          => (err = "error" /\ download = -1)

\* C30: every export that has started recording eventually returns (or
\* throws), also when the audio ends, stalls, is paused or fails before its
\* currentTime reaches totalDuration.
C30_RecordingExportReturns == (rec = "recording") ~> (exPc = "returned")


(***************************************************************************)
(* Claims about the busy state of the handlers (checked under SpecBusy).    *)
(***************************************************************************)
\* C24: once generateTTS, transcribe or exportMP4 has returned, on whatever
\* path (success, early return, thrown error), its busy flag is false, and
\* after exportMP4 the phase is 'idle'.
C24_BusyCleared ==
    /\ ttsPc \in {"off", "idle", "failed", "done"} => ~isTtsBusy
    /\ trPc \in {"idle", "failed", "ok"} => ~isTranscribing
    /\ exPc \in {"idle", "returned"} => (~isExporting /\ phase = "idle")

\* an export that was shown as running has thrown and returned, and a
\* transcription has failed
C24_Witness ==
    /\ exPc = "returned" /\ err = "error" /\ exportLock = "released"
    /\ trPc = "failed"

\* a generation that failed has returned
C24_TtsReturned == ttsPc = "failed" /\ ~isTtsBusy


(***************************************************************************)
(* Claims about the segment builder (checked under SpecBuild).              *)
(***************************************************************************)
\* C26: for a text of W >= 1 words and a duration D > 0 the builder returns
\* exactly ceil(W / 6) segments of equal duration D / ceil(W / 6), contiguous
\* from 0, the last of which ends at D.
C26_SixWordChunks ==
    bdOut # <<>> =>
        LET n == CeilDiv(WordCount(bdText), 6)
        IN  /\ Len(bdOut) = n
            /\ \A i \in 1..Len(bdOut) :
                   /\ bdOut[i].start = (i - 1) * (bdDuration \div n)
                   /\ bdOut[i].end = i * (bdDuration \div n)
            /\ bdOut[Len(bdOut)].end = bdDuration


(***************************************************************************)
(* Claims about the live preview (checked under SpecPreview).               *)
(***************************************************************************)
\* what schedules the loop: the pending animation frames and the interval
PreviewDrivers ==
    (IF pvRaf THEN 1 ELSE 0) + pvStrays + (IF pvInterval THEN 1 ELSE 0)

\* C29: at any moment at most one driver (one pending animation frame or the
\* fallback interval) schedules the preview loop, and after the effect's
\* cleanup the loop never draws and never requests a frame again, also when
\* the cleanup or a visibility change happens while a loop invocation is
\* suspended at its await of resume().
C29_SingleDriver ==
    /\ PreviewDrivers <= 1
    /\ ~pvDrewAfterCleanup
    /\ ~pvScheduledAfterCleanup

====
